---- MODULE Spec2Model ----
(***************************************************************************)
(* Model of scripts/lib/version_manager.py (class VersionManager): the     *)
(* version store on disk (VERSION.yaml, legacy VERSION), the build         *)
(* metadata file (pubspec.yaml), the assets copy, and the operations on    *)
(* them.  Python strings are sequences of one-character strings, so that   *)
(* parsing, validation and formatting are computed character by character. *)
(***************************************************************************)
EXTENDS Integers, Sequences, FiniteSets, TLC

VARIABLES fs, pre, last, nOps, inp, out, pc, loc

vars == <<fs, pre, last, nOps, inp, out, pc, loc>>

(***************************************************************************)
(* Bounds of the model.                                                    *)
(***************************************************************************)
\* longest input string of the pure string functions (SpecParse)
MaxLen == 7
\* number of operations in one run of the version manager (Spec)
MaxOps == 2

(***************************************************************************)
(* Python str primitives.                                                  *)
(***************************************************************************)
NL == "\n"

Digits == {"0", "1", "2", "3", "4", "5", "6", "7", "8", "9"}

\* str.isspace for the characters of the model's alphabet
IsSpace(c) == c \in {" ", NL}

DigitVal(c) ==
    CASE c = "0" -> 0 [] c = "1" -> 1 [] c = "2" -> 2 [] c = "3" -> 3
      [] c = "4" -> 4 [] c = "5" -> 5 [] c = "6" -> 6 [] c = "7" -> 7
      [] c = "8" -> 8 [] c = "9" -> 9

DigitChar(n) ==
    CASE n = 0 -> "0" [] n = 1 -> "1" [] n = 2 -> "2" [] n = 3 -> "3"
      [] n = 4 -> "4" [] n = 5 -> "5" [] n = 6 -> "6" [] n = 7 -> "7"
      [] n = 8 -> "8" [] n = 9 -> "9"

\* s[a..b] (1-based, inclusive), empty when a > b
Slice(s, a, b) == IF a > b THEN <<>> ELSE SubSeq(s, a, b)

\* c in s
Contains(s, c) == \E i \in 1..Len(s) : s[i] = c

\* position of the first / last c in s (0 when absent)
FirstIndex(s, c) ==
    IF Contains(s, c)
    THEN CHOOSE i \in 1..Len(s) : s[i] = c /\ \A j \in 1..(i - 1) : s[j] # c
    ELSE 0

LastIndex(s, c) ==
    IF Contains(s, c)
    THEN CHOOSE i \in 1..Len(s) : s[i] = c /\ \A j \in (i + 1)..Len(s) : s[j] # c
    ELSE 0

\* str.isdigit: non-empty and every character a digit
isdigit(s) == Len(s) > 0 /\ \A i \in 1..Len(s) : s[i] \in Digits

\* str.strip(): leading and trailing whitespace removed
RECURSIVE LStrip(_)
LStrip(s) == IF Len(s) > 0 /\ IsSpace(s[1]) THEN LStrip(Tail(s)) ELSE s

RECURSIVE RStrip(_)
RStrip(s) ==
    IF Len(s) > 0 /\ IsSpace(s[Len(s)]) THEN RStrip(Slice(s, 1, Len(s) - 1)) ELSE s

strip(s) == LStrip(RStrip(s))

\* str.split(c): the pieces of s between the occurrences of c
RECURSIVE split(_, _)
split(s, c) ==
    IF ~Contains(s, c) THEN <<s>>
    ELSE LET i == FirstIndex(s, c)
         IN  <<Slice(s, 1, i - 1)>> \o split(Slice(s, i + 1, Len(s)), c)

\* int(s) of a string of digits, value of the digits read left to right
RECURSIVE DigitsToInt(_, _)
DigitsToInt(s, acc) ==
    IF Len(s) = 0 THEN acc ELSE DigitsToInt(Tail(s), 10 * acc + DigitVal(s[1]))

\* int(s): surrounding whitespace is ignored
int(s) == DigitsToInt(strip(s), 0)

\* str(n) for n >= 0: decimal digits, no leading zeros
RECURSIVE str(_)
str(n) == IF n < 10 THEN <<DigitChar(n)>> ELSE str(n \div 10) \o <<DigitChar(n % 10)>>

\* re.match(r'^\d+\.\d+\.\d+', s) consuming exactly all of s
TripleBody(s) ==
    LET parts == split(s, ".")
    IN  Len(parts) = 3 /\ \A i \in 1..3 : isdigit(parts[i])

\* re.match(r'^\d+\.\d+\.\d+(\+\d+)?', s) consuming exactly all of s
VersionBody(s) ==
    \/ TripleBody(s)
    \/ LET i == LastIndex(s, "+")
       IN  i > 0 /\ TripleBody(Slice(s, 1, i - 1)) /\ isdigit(Slice(s, i + 1, Len(s)))

\* A pattern ending in '$' (no MULTILINE) matches at the end of the string
\* and also just before a newline that is the string's last character.
DollarEnd(s) ==
    IF Len(s) > 0 /\ s[Len(s)] = NL THEN {s, Slice(s, 1, Len(s) - 1)} ELSE {s}

\* re.match(r'^\d+\.\d+\.\d+$', s)
MatchTriple(s) == \E x \in DollarEnd(s) : TripleBody(x)

\* re.match(r'^\d+\.\d+\.\d+(\+\d+)?$', s)
MatchVersion(s) == \E x \in DollarEnd(s) : VersionBody(x)

(***************************************************************************)
(* Results of calls: ok, or the exception raised (named after the spec's   *)
(* error taxonomy by the raise site), and the returned value.              *)
(***************************************************************************)
NoneVal == <<>>

Ok(v) == [ok |-> TRUE, err |-> "", val |-> v]

Raise(e) == [ok |-> FALSE, err |-> e, val |-> NoneVal]

\* VersionManager.validate_version
validate_version(version) ==
    IF ~MatchVersion(version) THEN Raise("InvalidFormat") ELSE Ok(NoneVal)

\* parse_version raising on a build part that is not all digits instead of
\* coercing it
parse_version_strict(version) ==
    LET hasPlus == Contains(version, "+")
        i == LastIndex(version, "+")
        version_part == IF hasPlus THEN Slice(version, 1, i - 1) ELSE version
        build_part == IF hasPlus THEN Slice(version, i + 1, Len(version)) ELSE <<"1">>
    IN  IF ~MatchTriple(version_part) \/ ~isdigit(build_part) THEN Raise("InvalidFormat")
        ELSE Ok(<<version_part, build_part>>)

\* VersionManager.parse_version; val = <<version_part, build_part>>
parse_version(version) ==
    LET hasPlus == Contains(version, "+")
        i == LastIndex(version, "+")
        version_part == IF hasPlus THEN Slice(version, 1, i - 1) ELSE version
        build_part == IF hasPlus THEN Slice(version, i + 1, Len(version)) ELSE <<"1">>
    IN  IF ~MatchTriple(version_part) THEN Raise("InvalidFormat")
        ELSE Ok(<<version_part, IF ~isdigit(build_part) THEN <<"1">> ELSE build_part>>)

(***************************************************************************)
(* String literals of the code and of the modelled files.                  *)
(***************************************************************************)
CLIENT_VERSION == <<"C", "L", "I", "E", "N", "T", "_", "V", "E", "R", "S", "I", "O", "N">>

SERVER_VERSION == <<"S", "E", "R", "V", "E", "R", "_", "V", "E", "R", "S", "I", "O", "N">>

\* the literal prefix of the pattern r'^version:\s*.*$'
VERSION_COLON == <<"v", "e", "r", "s", "i", "o", "n", ":">>

\* the literal prefix of the replacement f'version: {full_version}'
VERSION_COLON_SP == <<"v", "e", "r", "s", "i", "o", "n", ":", " ">>

\* os.path.join(project_root, target, 'pubspec.yaml')
ClientPubspec == "client/pubspec.yaml"

ServerPubspec == "server/pubspec.yaml"

(***************************************************************************)
(* The files.  fs.yaml is VERSION.yaml as the document yaml.safe_load      *)
(* returns and yaml.dump writes; an absent key is <<>> and a present one   *)
(* is <<value>>.  fs.old is the legacy VERSION file as text.  fs.pubspec   *)
(* maps a path to a text file.  fs.assetsDir, fs.assetsYaml and            *)
(* fs.assetsOld are server/assets and the copies in it.                    *)
(***************************************************************************)
\* dict.get(key, '') of an optional entry
GetOr(opt) == IF opt = <<>> THEN <<>> ELSE opt[1]

NoSection == [present |-> FALSE, version |-> <<>>]

NoCompat ==
    [present |-> FALSE, min_client_version |-> <<>>, min_server_version |-> <<>>]

\* yaml.safe_load(f) or {} of an empty file
EmptyDoc == [client |-> NoSection, server |-> NoSection, compatibility |-> NoCompat]

NoYaml == [exists |-> FALSE, doc |-> EmptyDoc]

NoText == [exists |-> FALSE, text |-> <<>>]

\* _get_version_file_type looking for the legacy file first
_get_version_file_type_old_first(f) ==
    IF f.old.exists THEN [ok |-> TRUE, err |-> "", type |-> "old"]
    ELSE IF f.yaml.exists THEN [ok |-> TRUE, err |-> "", type |-> "yaml"]
    ELSE [ok |-> FALSE, err |-> "NotFound", type |-> ""]

\* VersionManager._get_version_file_type: "yaml", "old", or raises
_get_version_file_type(f) ==
    IF f.yaml.exists THEN [ok |-> TRUE, err |-> "", type |-> "yaml"]
    ELSE IF f.old.exists THEN [ok |-> TRUE, err |-> "", type |-> "old"]
    ELSE [ok |-> FALSE, err |-> "NotFound", type |-> ""]

\* a dict as the sequence of its <<key, value>> items in insertion order
DictHas(d, k) == \E i \in 1..Len(d) : d[i][1] = k

\* d.get(k, '')
DictGet(d, k) ==
    IF DictHas(d, k) THEN d[CHOOSE i \in 1..Len(d) : d[i][1] = k][2] ELSE <<>>

\* d[k] = v: an existing key keeps its place, a new key goes last
DictSet(d, k, v) ==
    IF DictHas(d, k)
    THEN [i \in 1..Len(d) |-> IF d[i][1] = k THEN <<k, v>> ELSE d[i]]
    ELSE Append(d, <<k, v>>)

\* the loop body of _load_old_format for one line
LoadLine(result, rawline) ==
    LET line == strip(rawline)
        i == FirstIndex(line, "=")
    IN  IF Contains(line, "=")
        THEN DictSet(result, strip(Slice(line, 1, i - 1)),
                     strip(Slice(line, i + 1, Len(line))))
        ELSE result

RECURSIVE LoadLines(_, _)
LoadLines(result, lines) ==
    IF Len(lines) = 0 THEN result
    ELSE LoadLines(LoadLine(result, lines[1]), Tail(lines))

\* VersionManager._load_old_format (the file exists)
_load_old_format(f) == LoadLines(<<>>, split(f.old.text, NL))

\* the write loop without the line terminator: f.write(f"{key}={value}")
RECURSIVE DumpOldNoNewline(_)
DumpOldNoNewline(d) ==
    IF Len(d) = 0 THEN <<>>
    ELSE d[1][1] \o <<"=">> \o d[1][2] \o DumpOldNoNewline(Tail(d))

\* the write loop of set_version: f.write(f"{key}={value}\n") for every item
RECURSIVE DumpOld(_)
DumpOld(d) ==
    IF Len(d) = 0 THEN <<>>
    ELSE d[1][1] \o <<"=">> \o d[1][2] \o <<NL>> \o DumpOld(Tail(d))

(***************************************************************************)
(* The operations: each maps the files and its arguments to the outcome    *)
(* (ok/err/val) and the files after the call.                              *)
(***************************************************************************)
Return(f, v) == [ok |-> TRUE, err |-> "", val |-> v, fs |-> f]

Throw(f, e) == [ok |-> FALSE, err |-> e, val |-> NoneVal, fs |-> f]

\* VersionManager._save_yaml
_save_yaml(f, data) == [f EXCEPT !.yaml.doc = data]

\* VersionManager.get_version
get_version(f, target) ==
    LET ft == _get_version_file_type(f)
    IN  IF ~ft.ok THEN Throw(f, ft.err)
        ELSE IF ft.type = "yaml"
        THEN IF target \notin {"client", "server"} THEN Throw(f, "UnknownTarget")
             ELSE LET data == f.yaml.doc
                      version == IF target = "client" THEN GetOr(data.client.version)
                                 ELSE GetOr(data.server.version)
                  IN  IF version = <<>> THEN Throw(f, "MissingVersion")
                      ELSE Return(f, version)
        ELSE LET data == _load_old_format(f)
                 key == IF target = "client" THEN CLIENT_VERSION ELSE SERVER_VERSION
                 version == DictGet(data, key)
             IN  IF version = <<>> THEN Throw(f, "MissingVersion")
                 ELSE Return(f, version)

\* VersionManager.set_version
set_version(f, target, version) ==
    LET ft == _get_version_file_type(f)
    IN  IF ~validate_version(version).ok THEN Throw(f, "InvalidFormat")
        ELSE IF ~ft.ok THEN Throw(f, ft.err)
        ELSE IF ft.type = "yaml"
        THEN LET data == f.yaml.doc
             IN  IF target = "client"
                 THEN Return(_save_yaml(f, [data EXCEPT
                          !.client = [present |-> TRUE, version |-> <<version>>]]),
                          NoneVal)
                 ELSE IF target = "server"
                 THEN Return(_save_yaml(f, [data EXCEPT
                          !.server = [present |-> TRUE, version |-> <<version>>]]),
                          NoneVal)
                 ELSE Throw(f, "UnknownTarget")
        ELSE LET key == IF target = "client" THEN CLIENT_VERSION ELSE SERVER_VERSION
                 data == DictSet(_load_old_format(f), key, version)
             IN  Return([f EXCEPT !.old.text = DumpOld(data)], NoneVal)

\* VersionManager.get_min_version
get_min_version(f, target) ==
    LET ft == _get_version_file_type(f)
    IN  IF ~ft.ok THEN Throw(f, ft.err)
        ELSE IF ft.type = "yaml"
        THEN IF target \notin {"client", "server"} THEN Throw(f, "UnknownTarget")
             ELSE LET c == f.yaml.doc.compatibility
                      version == IF target = "client" THEN GetOr(c.min_client_version)
                                 ELSE GetOr(c.min_server_version)
                  IN  IF version = <<>> THEN Throw(f, "MissingMinVersion")
                      ELSE Return(f, version)
        ELSE Throw(f, "UnsupportedByLegacyFormat")

\* VersionManager.set_min_version
set_min_version(f, target, min_version) ==
    LET ft == _get_version_file_type(f)
    IN  IF ~MatchTriple(min_version) THEN Throw(f, "InvalidFormat")
        ELSE IF ~ft.ok THEN Throw(f, ft.err)
        ELSE IF ft.type = "yaml"
        THEN LET data == f.yaml.doc
                 c == [data.compatibility EXCEPT !.present = TRUE]
             IN  IF target = "client"
                 THEN Return(_save_yaml(f, [data EXCEPT !.compatibility =
                          [c EXCEPT !.min_client_version = <<min_version>>]]), NoneVal)
                 ELSE IF target = "server"
                 THEN Return(_save_yaml(f, [data EXCEPT !.compatibility =
                          [c EXCEPT !.min_server_version = <<min_version>>]]), NoneVal)
                 ELSE Throw(f, "UnknownTarget")
        ELSE Throw(f, "UnsupportedByLegacyFormat")

\* the new version without its build number
FormatVersionNoBuild(major, minor, patch, build_number) ==
    str(major) \o <<".">> \o str(minor) \o <<".">> \o str(patch)

\* f"{major}.{minor}.{patch}+{build_number}"
FormatVersion(major, minor, patch, build_number) ==
    str(major) \o <<".">> \o str(minor) \o <<".">> \o str(patch) \o <<"+">>
        \o str(build_number)

\* the chain with a minor bump that forgets patch = 0
BumpTupleKeepPatch(t, bump_type) ==
    CASE bump_type = "major" -> <<t[1] + 1, 0, 0, t[4]>>
      [] bump_type = "minor" -> <<t[1], t[2] + 1, t[3], t[4]>>
      [] bump_type = "patch" -> <<t[1], t[2], t[3] + 1, t[4]>>
      [] bump_type = "build" -> <<t[1], t[2], t[3], t[4] + 1>>
      [] OTHER -> <<>>

\* the chain without its else branch: an unknown type changes nothing
BumpTupleNoElse(t, bump_type) ==
    CASE bump_type = "major" -> <<t[1] + 1, 0, 0, t[4]>>
      [] bump_type = "minor" -> <<t[1], t[2] + 1, 0, t[4]>>
      [] bump_type = "patch" -> <<t[1], t[2], t[3] + 1, t[4]>>
      [] bump_type = "build" -> <<t[1], t[2], t[3], t[4] + 1>>
      [] OTHER -> t

\* the chain with a major bump that also restarts the build number
BumpTupleResetBuild(t, bump_type) ==
    CASE bump_type = "major" -> <<t[1] + 1, 0, 0, 1>>
      [] bump_type = "minor" -> <<t[1], t[2] + 1, 0, t[4]>>
      [] bump_type = "patch" -> <<t[1], t[2], t[3] + 1, t[4]>>
      [] bump_type = "build" -> <<t[1], t[2], t[3], t[4] + 1>>
      [] OTHER -> <<>>

\* the if/elif chain of bump_version on (major, minor, patch, build_number);
\* <<>> stands for the else branch
BumpTuple(t, bump_type) ==
    CASE bump_type = "major" -> <<t[1] + 1, 0, 0, t[4]>>
      [] bump_type = "minor" -> <<t[1], t[2] + 1, 0, t[4]>>
      [] bump_type = "patch" -> <<t[1], t[2], t[3] + 1, t[4]>>
      [] bump_type = "build" -> <<t[1], t[2], t[3], t[4] + 1>>
      [] OTHER -> <<>>

\* major, minor, patch = map(int, version_part.split('.')); int(build_part)
VersionTuple(parsed) ==
    LET parts == split(parsed[1], ".")
    IN  <<int(parts[1]), int(parts[2]), int(parts[3]), int(parsed[2])>>

\* VersionManager.bump_version
bump_version(f, target, bump_type) ==
    LET cur == get_version(f, target)
        p == parse_version(cur.val)
        n == BumpTuple(VersionTuple(p.val), bump_type)
        new_version == FormatVersion(n[1], n[2], n[3], n[4])
        w == set_version(f, target, new_version)
    IN  IF ~cur.ok THEN Throw(f, cur.err)
        ELSE IF ~p.ok THEN Throw(f, p.err)
        ELSE IF n = <<>> THEN Throw(f, "UnknownBumpKind")
        ELSE IF ~w.ok THEN Throw(w.fs, w.err)
        ELSE Return(w.fs, new_version)

(***************************************************************************)
(* re.sub(r'^version:\s*.*$', replacement, content, flags=re.MULTILINE)    *)
(***************************************************************************)
\* '^' under MULTILINE: at the start of the text or right after a newline
AtLineStart(s, i) == i = 1 \/ s[i - 1] = NL

StartsWithAt(s, i, p) ==
    i + Len(p) - 1 <= Len(s) /\ SubSeq(s, i, i + Len(p) - 1) = p

\* '\s*' (greedy): the first position from i on that holds no whitespace
RECURSIVE SkipSpace(_, _)
SkipSpace(s, i) == IF i <= Len(s) /\ IsSpace(s[i]) THEN SkipSpace(s, i + 1) ELSE i

\* '.*$' (greedy, MULTILINE): the first position from i on that holds a newline
RECURSIVE SkipLine(_, _)
SkipLine(s, i) == IF i <= Len(s) /\ s[i] # NL THEN SkipLine(s, i + 1) ELSE i

\* the position after the match of the pattern that starts at i
MatchEnd(s, i) == SkipLine(s, SkipSpace(s, i + Len(VERSION_COLON)))

\* every non-overlapping match, left to right from i, replaced by repl
RECURSIVE SubVersionLine(_, _, _)
SubVersionLine(s, i, repl) ==
    IF i > Len(s) THEN <<>>
    ELSE IF AtLineStart(s, i) /\ StartsWithAt(s, i, VERSION_COLON)
    THEN repl \o SubVersionLine(s, MatchEnd(s, i), repl)
    ELSE <<s[i]>> \o SubVersionLine(s, i + 1, repl)

\* VersionManager.sync_to_pubspec; pubspec_path "None" is the default argument
sync_to_pubspec(f, target, pubspec_path) ==
    LET cur == get_version(f, target)
        p == parse_version(cur.val)
        full_version == p.val[1] \o <<"+">> \o p.val[2]
        path == IF pubspec_path # "None" THEN pubspec_path
                ELSE IF target = "client" THEN ClientPubspec ELSE ServerPubspec
        new_content ==
            SubVersionLine(f.pubspec[path].text, 1, VERSION_COLON_SP \o full_version)
    IN  IF ~cur.ok THEN Throw(f, cur.err)
        ELSE IF ~p.ok THEN Throw(f, p.err)
        ELSE IF pubspec_path = "None" /\ target \notin {"client", "server"}
        THEN Throw(f, "UnknownTarget")
        ELSE IF ~f.pubspec[path].exists THEN Throw(f, "NotFound")
        ELSE Return([f EXCEPT !.pubspec[path].text = new_content], NoneVal)

\* VersionManager.copy_to_assets
copy_to_assets(f) ==
    LET g == [f EXCEPT !.assetsDir = TRUE]
        ft == _get_version_file_type(g)
    IN  IF ~ft.ok THEN Throw(g, ft.err)
        ELSE IF ft.type = "yaml" THEN Return([g EXCEPT !.assetsYaml = g.yaml], NoneVal)
        ELSE Return([g EXCEPT !.assetsOld = g.old], NoneVal)

(***************************************************************************)
(* Initial files and the arguments of the calls.                           *)
(***************************************************************************)
Targets == {"client", "server", "all"}

BumpTypes == {"major", "minor", "patch", "build", "release"}

PubspecArgs == {"None", ClientPubspec, ServerPubspec}

V_1_0_7_10 == <<"1", ".", "0", ".", "7", "+", "1", "0">>

V_02_9_9 == <<"0", "2", ".", "9", ".", "9">>

V_1_0_7_x == <<"1", ".", "0", ".", "7", "+", "x">>

V_3_0_0 == <<"3", ".", "0", ".", "0">>

V_0_9_9_9 == <<"0", ".", "9", ".", "9", "+", "9">>

V_1_2_3_NL == <<"1", ".", "2", ".", "3", NL>>

V_1_0_0_x == <<"1", ".", "0", ".", "0", "+", "x">>

V_1_0 == <<"1", ".", "0">>

V_1_0_0 == <<"1", ".", "0", ".", "0">>

V_1_0_0_1 == <<"1", ".", "0", ".", "0", "+", "1">>

V_1_0_0_NL == <<"1", ".", "0", ".", "0", NL>>

\* version arguments of set_version
VersionArgs == {V_3_0_0, V_0_9_9_9, V_1_2_3_NL, V_1_0_0_x, V_1_0}

\* version arguments of set_min_version
MinVersionArgs == {V_1_0_0, V_1_0_0_1, V_1_0_0_NL}

Section(v) == [present |-> TRUE, version |-> <<v>>]

\* a complete VERSION.yaml
Doc1 ==
    [client |-> Section(V_1_0_7_10), server |-> Section(V_02_9_9),
     compatibility |-> [present |-> TRUE, min_client_version |-> <<V_1_0_0>>,
                        min_server_version |-> <<V_1_0_0>>]]

\* a hand-edited VERSION.yaml: non-numeric build, no server, no compatibility
Doc2 ==
    [client |-> Section(V_1_0_7_x), server |-> NoSection, compatibility |-> NoCompat]

\* a legacy VERSION file with the two keys
Old1 ==
    CLIENT_VERSION \o <<"=">> \o V_1_0_7_10 \o <<NL>>
        \o SERVER_VERSION \o <<"=">> \o V_02_9_9 \o <<NL>>

\* a legacy VERSION file with a comment, spaces around '=', a blank line and
\* an unrelated key, and no SERVER_VERSION
Old2 ==
    <<"#", " ", "v", NL>> \o CLIENT_VERSION \o <<" ", "=", " ">> \o V_1_0_7_10
        \o <<NL, NL, "A", "=", "b", NL>>

Pubspec1 == <<"n", "a", "m", "e", ":", " ", "a", NL, "v", "e", "r", "s", "i", "o", "n", ":", " ", "0", ".", "1", ".", "0", NL>>

InitPubspec ==
    [p \in {ClientPubspec, ServerPubspec} |->
        IF p = ClientPubspec THEN [exists |-> TRUE, text |-> Pubspec1] ELSE NoText]

MkFs(y, o) ==
    [yaml |-> y, old |-> o, pubspec |-> InitPubspec, assetsDir |-> FALSE,
     assetsYaml |-> NoYaml, assetsOld |-> NoText]

YamlFile(d) == [exists |-> TRUE, doc |-> d]

OldFile(t) == [exists |-> TRUE, text |-> t]

InitFiles ==
    {MkFs(YamlFile(Doc1), NoText), MkFs(YamlFile(Doc2), NoText),
     MkFs(NoYaml, OldFile(Old1)), MkFs(NoYaml, OldFile(Old2)),
     MkFs(YamlFile(Doc1), OldFile(Old2)), MkFs(NoYaml, NoText)}

NoCall ==
    [op |-> "none", target |-> "", version |-> <<>>, kind |-> "", path |-> "",
     ok |-> TRUE, err |-> "", val |-> <<>>]

NoOut == [fn |-> "none", ok |-> TRUE, err |-> "", val |-> <<>>]

\* no invocation is under way: pc is "idle" and there are no locals
NoLoc == <<>>

Init ==
    /\ fs \in InitFiles
    /\ pre = fs
    /\ last = NoCall
    /\ nOps = 0
    /\ inp = <<>>
    /\ out = NoOut
    /\ pc = "idle"
    /\ loc = NoLoc

(***************************************************************************)
(* One action per operation of VersionManager: the call runs on the files  *)
(* fs; pre keeps the files before the call and last the call and outcome.  *)
(***************************************************************************)
Call(op, target, version, kind, path, r) ==
    /\ nOps < MaxOps
    /\ fs' = r.fs
    /\ pre' = fs
    /\ last' = [op |-> op, target |-> target, version |-> version, kind |-> kind,
                path |-> path, ok |-> r.ok, err |-> r.err, val |-> r.val]
    /\ nOps' = nOps + 1
    /\ UNCHANGED <<inp, out, pc, loc>>

GetVersion ==
    \E t \in Targets : Call("get_version", t, <<>>, "", "", get_version(fs, t))

SetVersion ==
    \E t \in Targets, v \in VersionArgs :
        Call("set_version", t, v, "", "", set_version(fs, t, v))

BumpVersion ==
    \E t \in Targets, k \in BumpTypes :
        Call("bump_version", t, <<>>, k, "", bump_version(fs, t, k))

GetMinVersion ==
    \E t \in Targets : Call("get_min_version", t, <<>>, "", "", get_min_version(fs, t))

SetMinVersion ==
    \E t \in Targets, v \in MinVersionArgs :
        Call("set_min_version", t, v, "", "", set_min_version(fs, t, v))

SyncToPubspec ==
    \E t \in Targets, p \in PubspecArgs :
        Call("sync_to_pubspec", t, <<>>, "", p, sync_to_pubspec(fs, t, p))

CopyToAssets == Call("copy_to_assets", "", <<>>, "", "", copy_to_assets(fs))

Next ==
    \/ GetVersion
    \/ SetVersion
    \/ BumpVersion
    \/ GetMinVersion
    \/ SetMinVersion
    \/ SyncToPubspec
    \/ CopyToAssets

Spec == Init /\ [][Next]_vars

(***************************************************************************)
(* The pure string functions on every string over Alphabet of at most      *)
(* MaxLen characters: out keeps the outcome of the last call on inp.       *)
(***************************************************************************)
Alphabet == {"1", ".", "+", "x", NL}

Strings == UNION {[1..n -> Alphabet] : n \in 0..MaxLen}

InitParse ==
    /\ fs = MkFs(NoYaml, NoText)
    /\ pre = fs
    /\ last = NoCall
    /\ nOps = 0
    /\ inp \in Strings
    /\ out = NoOut
    /\ pc = "idle"
    /\ loc = NoLoc

ParseVersion ==
    /\ out.fn # "parse_version"
    /\ LET r == parse_version(inp)
       IN  out' = [fn |-> "parse_version", ok |-> r.ok, err |-> r.err, val |-> r.val]
    /\ UNCHANGED <<fs, pre, last, nOps, inp, pc, loc>>

ValidateVersion ==
    /\ out.fn # "validate_version"
    /\ LET r == validate_version(inp)
       IN  out' = [fn |-> "validate_version", ok |-> r.ok, err |-> r.err, val |-> r.val]
    /\ UNCHANGED <<fs, pre, last, nOps, inp, pc, loc>>

NextParse == ParseVersion \/ ValidateVersion

SpecParse == InitParse /\ [][NextParse]_vars

(***************************************************************************)
(* Vocabulary of the properties.                                           *)
(***************************************************************************)
\* v has the form major.minor.patch or major.minor.patch+build
WellFormed(v) == VersionBody(v)

\* <<major, minor, patch, build>> of a well-formed v, build 1 without suffix
Numbers(v) ==
    LET i == FirstIndex(v, "+")
        triple == IF i = 0 THEN v ELSE Slice(v, 1, i - 1)
        parts == split(triple, ".")
    IN  <<DigitsToInt(parts[1], 0), DigitsToInt(parts[2], 0), DigitsToInt(parts[3], 0),
          IF i = 0 THEN 1 ELSE DigitsToInt(Slice(v, i + 1, Len(v)), 0)>>

\* the string M.m.p+b
Shown(M, m, p, b) ==
    str(M) \o <<".">> \o str(m) \o <<".">> \o str(p) \o <<"+">> \o str(b)

RealTargets == {"client", "server"}

RealBumps == {"major", "minor", "patch", "build"}

\* the last call again, on the files f (the dispatch of the command line)
Again(f) ==
    CASE last.op = "get_version" -> get_version(f, last.target)
      [] last.op = "set_version" -> set_version(f, last.target, last.version)
      [] last.op = "bump_version" -> bump_version(f, last.target, last.kind)
      [] last.op = "get_min_version" -> get_min_version(f, last.target)
      [] last.op = "set_min_version" -> set_min_version(f, last.target, last.version)
      [] last.op = "sync_to_pubspec" -> sync_to_pubspec(f, last.target, last.path)
      [] last.op = "copy_to_assets" -> copy_to_assets(f)
      [] OTHER -> Return(f, NoneVal)

\* <<major, minor, patch, build>> of the version stored for t, as the code reads it
Readable(f, t) == get_version(f, t).ok /\ parse_version(get_version(f, t).val).ok

StoredTuple(f, t) == VersionTuple(parse_version(get_version(f, t).val).val)

\* a < b in lexicographic order, for 4-tuples
LexLess(a, b) ==
    \E i \in 1..4 : a[i] < b[i] /\ \A j \in 1..(i - 1) : a[j] = b[j]

\* the calls of C9
StoreOps == {"get_version", "set_version", "bump_version", "copy_to_assets"}

\* the files that hold a representation, or a copy of one
Representations(f) == <<f.yaml, f.old, f.assetsYaml, f.assetsOld>>

\* the call acted on VERSION.yaml alone: the legacy file is untouched and the
\* outcome is what it is without a legacy file
OnlyYaml ==
    LET r == Again([pre EXCEPT !.old = NoText])
    IN  /\ fs.old = pre.old /\ fs.assetsOld = pre.assetsOld
        /\ last.ok = r.ok /\ last.err = r.err /\ last.val = r.val
        /\ fs.yaml = r.fs.yaml /\ fs.assetsYaml = r.fs.assetsYaml

\* the call acted on the legacy file alone
OnlyOld == fs.yaml = pre.yaml /\ fs.assetsYaml = pre.assetsYaml

\* the lines of a text file
FileLines(text) ==
    LET pieces == split(text, NL)
    IN  IF pieces[Len(pieces)] = <<>> THEN Slice(pieces, 1, Len(pieces) - 1) ELSE pieces

\* the key of a KEY=VALUE line, <<>> for a line without '='
LineKey(line) ==
    IF Contains(line, "=") THEN strip(Slice(line, 1, FirstIndex(line, "=") - 1)) ELSE <<>>

(***************************************************************************)
(* C1.  For a target t in {client, server} whose stored version is the     *)
(* well-formed M.m.p+b (b = 1 without build suffix), bump_version(t, kind) *)
(* succeeds, returns (M+1).0.0+b for major, M.(m+1).0+b for minor,         *)
(* M.m.(p+1)+b for patch and M.m.p+(b+1) for build, and a get_version(t)   *)
(* that follows returns the same string.                                   *)
(***************************************************************************)
C1_BumpRules ==
    (/\ last.op = "bump_version"
     /\ last.target \in RealTargets
     /\ last.kind \in RealBumps
     /\ get_version(pre, last.target).ok
     /\ WellFormed(get_version(pre, last.target).val))
    => LET n == Numbers(get_version(pre, last.target).val)
           expected ==
               CASE last.kind = "major" -> Shown(n[1] + 1, 0, 0, n[4])
                 [] last.kind = "minor" -> Shown(n[1], n[2] + 1, 0, n[4])
                 [] last.kind = "patch" -> Shown(n[1], n[2], n[3] + 1, n[4])
                 [] last.kind = "build" -> Shown(n[1], n[2], n[3], n[4] + 1)
       IN  /\ last.ok
           /\ last.val = expected
           /\ get_version(fs, last.target).ok
           /\ get_version(fs, last.target).val = expected

\* a minor bump of 0.9.9+9 has returned 0.10.0+9
C1_Witness ==
    /\ last.op = "bump_version" /\ last.kind = "minor" /\ last.ok
    /\ get_version(pre, last.target).ok
    /\ get_version(pre, last.target).val = V_0_9_9_9
    /\ last.val = <<"0", ".", "1", "0", ".", "0", "+", "9">>

(***************************************************************************)
(* C2.  Round trip: after a successful set_version(t, v), t in {client,    *)
(* server}, v well formed, on either representation, get_version(t)        *)
(* returns exactly v.                                                      *)
(***************************************************************************)
C2_RoundTrip ==
    (/\ last.op = "set_version" /\ last.ok
     /\ last.target \in RealTargets
     /\ WellFormed(last.version))
    => /\ get_version(fs, last.target).ok
       /\ get_version(fs, last.target).val = last.version

\* set_version has written the legacy file
C2_Witness ==
    /\ last.op = "set_version" /\ last.ok /\ last.target = "server"
    /\ last.version = V_3_0_0
    /\ ~fs.yaml.exists /\ fs.old.exists /\ fs.old # pre.old

(***************************************************************************)
(* C3.  parse_version(v) splits v on its last '+'; the build part is "1"   *)
(* without '+' or when the text after the last '+' is not all digits; it   *)
(* fails with a format error exactly when the version part is not three    *)
(* dot-joined non-negative integers.                                       *)
(***************************************************************************)
C3_ParseVersion ==
    out.fn = "parse_version"
    => LET i == LastIndex(inp, "+")
           versionPart == IF i = 0 THEN inp ELSE Slice(inp, 1, i - 1)
           after == Slice(inp, i + 1, Len(inp))
           buildPart == IF i > 0 /\ isdigit(after) THEN after ELSE <<"1">>
       IN  IF TripleBody(versionPart)
           THEN out.ok /\ out.val = <<versionPart, buildPart>>
           ELSE ~out.ok /\ out.err = "InvalidFormat"

(***************************************************************************)
(* C4.  set_version(t, v) with v of neither form major.minor.patch nor     *)
(* major.minor.patch+build fails with a format error and leaves every      *)
(* file unchanged.                                                         *)
(***************************************************************************)
C4_SetVersionRejects ==
    (last.op = "set_version" /\ ~WellFormed(last.version))
    => ~last.ok /\ last.err = "InvalidFormat" /\ fs = pre

(***************************************************************************)
(* C5 as stated: set_version (validate_version) and parse_version accept   *)
(* exactly the same strings.                                               *)
(***************************************************************************)
C5_SameAcceptedSet ==
    out.fn = "validate_version" => (out.ok <=> parse_version(inp).ok)

(***************************************************************************)
(* C5 amended.  parse_version rejects a string only because of its         *)
(* major.minor.patch portion and coerces a non-numeric build suffix to 1;  *)
(* set_version is stricter: every string validate_version accepts is       *)
(* accepted by parse_version, and 1.1.1+x is rejected by validate_version. *)
(***************************************************************************)
C5_ParseLenient ==
    LET i == LastIndex(inp, "+")
        versionPart == IF i = 0 THEN inp ELSE Slice(inp, 1, i - 1)
        after == Slice(inp, i + 1, Len(inp))
    IN  /\ (out.fn = "parse_version" /\ TripleBody(versionPart))
           => /\ out.ok
              /\ (i > 0 /\ ~isdigit(after)) => out.val[2] = <<"1">>
        /\ (out.fn = "validate_version" /\ out.ok) => parse_version(inp).ok
        /\ (out.fn = "validate_version" /\ inp = <<"1", ".", "1", ".", "1", "+", "x">>) => ~out.ok

\* parse_version has coerced the build of 1.1.1+x
C5_Witness ==
    /\ out.fn = "parse_version" /\ out.ok
    /\ inp = <<"1", ".", "1", ".", "1", "+", "x">>
    /\ out.val = <<<<"1", ".", "1", ".", "1">>, <<"1">>>>

C7_Monotonic ==
    (last.op = "bump_version" /\ last.ok)
    => /\ Readable(fs, last.target)
       /\ LexLess(StoredTuple(pre, last.target), StoredTuple(fs, last.target))
       /\ \A t \in RealTargets :
              Readable(pre, t)
              => Readable(fs, t) /\ StoredTuple(fs, t)[4] >= StoredTuple(pre, t)[4]

\* a major bump has reset minor and patch: 0.9.9+9 became 1.0.0+9
C7_Witness ==
    /\ last.op = "bump_version" /\ last.kind = "major" /\ last.ok
    /\ StoredTuple(pre, last.target) = <<0, 9, 9, 9>>
    /\ StoredTuple(fs, last.target) = <<1, 0, 0, 9>>

(***************************************************************************)
(* C8.  set_version, set_min_version, sync_to_pubspec and copy_to_assets   *)
(* are idempotent: the same call again, right after the call, leaves the   *)
(* version store, the build-metadata file and the assets copy as the first *)
(* call left them.                                                         *)
(***************************************************************************)
C8_Idempotent ==
    last.op \in {"set_version", "set_min_version", "sync_to_pubspec", "copy_to_assets"}
    => Again(fs).fs = fs

C10_LegacyKeyReplacement ==
    (/\ last.op = "set_version" /\ last.ok /\ last.target \in RealTargets
     /\ ~pre.yaml.exists /\ pre.old.exists)
    => LET key == IF last.target = "client" THEN CLIENT_VERSION ELSE SERVER_VERSION
           before == FileLines(pre.old.text)
           after == FileLines(fs.old.text)
       IN  /\ DictGet(_load_old_format(fs), key) = strip(last.version)
           /\ \A i \in 1..Len(before) :
                  LineKey(before[i]) # key
                  => \E j \in 1..Len(after) : after[j] = before[i]

(***************************************************************************)
(* The write of the version store, step by step.  set_version (also when   *)
(* bump_version calls it) and set_min_version end in                       *)
(* open(file, 'w') ... write ... close: open truncates the file in place,  *)
(* the document is written piece by piece, and the process may be killed   *)
(* between any two steps.  loc.new holds the files the call is writing.    *)
(***************************************************************************)
\* the pieces yaml.dump writes, in order: the top-level keys of the document
YamlKeys == <<"client", "server", "compatibility">>

\* VERSION.yaml with the first n top-level keys of doc written
YamlPrefix(doc, n) ==
    [client |-> IF n >= 1 THEN doc.client ELSE NoSection,
     server |-> IF n >= 2 THEN doc.server ELSE NoSection,
     compatibility |-> IF n >= 3 THEN doc.compatibility ELSE NoCompat]

\* the number of newline-terminated pieces of text
CountLines(text) == Cardinality({i \in 1..Len(text) : text[i] = NL})

\* text up to and including its n-th newline
RECURSIVE TextPrefix(_, _)
TextPrefix(text, n) ==
    IF n = 0 \/ Len(text) = 0 THEN <<>>
    ELSE <<text[1]>> \o TextPrefix(Tail(text), IF text[1] = NL THEN n - 1 ELSE n)

\* the number of pieces of the write under way
Pieces == IF loc.file = "yaml" THEN Len(YamlKeys) ELSE CountLines(loc.new.old.text)

\* the file being written, with its first n pieces on disk
Written(f, n) ==
    IF loc.file = "yaml"
    THEN [f EXCEPT !.yaml.doc = YamlPrefix(loc.new.yaml.doc, n)]
    ELSE [f EXCEPT !.old.text = TextPrefix(loc.new.old.text, n)]

\* the call up to its write: validation, load and the new document in memory
Begin(op, target, version, kind, r) ==
    /\ pc \in {"idle", "done"}
    /\ nOps < MaxOps
    /\ nOps' = nOps + 1
    /\ pre' = fs
    /\ last' = [op |-> op, target |-> target, version |-> version, kind |-> kind,
                path |-> "", ok |-> r.ok, err |-> r.err, val |-> r.val]
    /\ IF r.ok
       THEN /\ pc' = "open"
            /\ loc' = [file |-> _get_version_file_type(fs).type, new |-> r.fs, n |-> 0]
       ELSE /\ pc' = "done"
            /\ loc' = NoLoc
    /\ UNCHANGED <<fs, inp, out>>

BeginSetVersion ==
    \E t \in Targets, v \in VersionArgs :
        Begin("set_version", t, v, "", set_version(fs, t, v))

BeginBumpVersion ==
    \E t \in Targets, k \in BumpTypes :
        Begin("bump_version", t, <<>>, k, bump_version(fs, t, k))

BeginSetMinVersion ==
    \E t \in Targets, v \in MinVersionArgs :
        Begin("set_min_version", t, v, "", set_min_version(fs, t, v))

\* open(file, 'w'): the file is truncated
OpenForWrite ==
    /\ pc = "open"
    /\ fs' = Written(fs, 0)
    /\ pc' = "write"
    /\ UNCHANGED <<pre, last, nOps, inp, out, loc>>

\* the next piece reaches the file
WritePiece ==
    /\ pc = "write"
    /\ loc.n < Pieces
    /\ fs' = Written(fs, loc.n + 1)
    /\ loc' = [loc EXCEPT !.n = loc.n + 1]
    /\ UNCHANGED <<pre, last, nOps, inp, out, pc>>

\* the with block ends: the file is closed and the call returns
CloseFile ==
    /\ pc = "write"
    /\ loc.n = Pieces
    /\ pc' = "done"
    /\ UNCHANGED <<fs, pre, last, nOps, inp, out, loc>>

\* the process is killed during the call
Crash ==
    /\ pc \in {"open", "write"}
    /\ pc' = "crashed"
    /\ UNCHANGED <<fs, pre, last, nOps, inp, out, loc>>

NextCrash ==
    \/ BeginSetVersion
    \/ BeginBumpVersion
    \/ BeginSetMinVersion
    \/ OpenForWrite
    \/ WritePiece
    \/ CloseFile
    \/ Crash

SpecCrash == Init /\ [][NextCrash]_vars

(***************************************************************************)
(* C11.  Writes of the version store are atomic: if a set_version,         *)
(* bump_version or set_min_version invocation is killed at any point, the  *)
(* store file holds the complete previous document or the complete new     *)
(* one, never an empty or partly written one.                              *)
(***************************************************************************)
C11_AtomicWrite ==
    pc = "crashed"
    => \/ fs.yaml = pre.yaml /\ fs.old = pre.old
       \/ fs.yaml = loc.new.yaml /\ fs.old = loc.new.old

\* the compatibility section of VERSION.yaml with min_<t>_version set to v
WithMin(c, t, v) ==
    IF t = "client"
    THEN [present |-> TRUE, min_client_version |-> <<v>>,
          min_server_version |-> c.min_server_version]
    ELSE [present |-> TRUE, min_client_version |-> c.min_client_version,
          min_server_version |-> <<v>>]

\* the authoritative store of f is the legacy flat file
LegacyStore(f) == ~f.yaml.exists /\ f.old.exists

\* v is major.minor.patch, without build suffix
BareTriple(v) == TripleBody(v)

(***************************************************************************)
(* C12.  set_min_version(t, v) fails with a format error when v is not a   *)
(* bare major.minor.patch; get_min_version and set_min_version fail with   *)
(* the unsupported-by-legacy-format error when the authoritative store is  *)
(* the legacy flat file; a failing call leaves the store unchanged and a   *)
(* successful set_min_version changes only compatibility.min_<t>_version.  *)
(***************************************************************************)
C12_MinVersion ==
    /\ last.op = "set_min_version" /\ last.target \in RealTargets
       => /\ ~BareTriple(last.version) => ~last.ok /\ last.err = "InvalidFormat"
          /\ BareTriple(last.version) /\ LegacyStore(pre)
             => ~last.ok /\ last.err = "UnsupportedByLegacyFormat"
          /\ ~last.ok => fs = pre
          /\ last.ok
             => fs = [pre EXCEPT !.yaml.doc.compatibility =
                         WithMin(pre.yaml.doc.compatibility, last.target, last.version)]
    /\ last.op = "get_min_version" /\ last.target \in RealTargets
       => /\ LegacyStore(pre) => ~last.ok /\ last.err = "UnsupportedByLegacyFormat"
          /\ fs = pre

\* f has an authoritative document
HasStore(f) == f.yaml.exists \/ f.old.exists

\* the version the authoritative document of f holds for the target named t,
\* <<>> when it holds none
StoredFor(f, t) ==
    IF t \notin RealTargets THEN <<>>
    ELSE IF f.yaml.exists
    THEN GetOr(IF t = "client" THEN f.yaml.doc.client.version
               ELSE f.yaml.doc.server.version)
    ELSE DictGet(_load_old_format(f), IF t = "client" THEN CLIENT_VERSION
                                      ELSE SERVER_VERSION)

\* the ValueErrors get_version raises for a target without version
MissingVersionErrors == {"MissingVersion", "UnknownTarget"}

(***************************************************************************)
(* C13.  get_version(target) fails with a missing-version error whenever   *)
(* the authoritative document, in either representation, holds no version  *)
(* for the target: an absent or empty entry of client or server, or a      *)
(* target name other than client and server.  It never returns another     *)
(* target's version.                                                       *)
(***************************************************************************)
C13_MissingVersion ==
    last.op = "get_version" /\ HasStore(pre)
    => /\ StoredFor(pre, last.target) = <<>>
          => ~last.ok /\ last.err \in MissingVersionErrors
       /\ last.ok => last.val = StoredFor(pre, last.target)

(***************************************************************************)
(* sync_to_pubspec on build-metadata files of every shape: the file is a   *)
(* sequence of at most MaxLines lines, with or without final newline.      *)
(***************************************************************************)
MaxLines == 3

\* a declaration, a declaration without value, one with a blank value, an
\* unrelated line, an indented (nested) version key, an empty line
PubspecLines ==
    {<<"v", "e", "r", "s", "i", "o", "n", ":", " ", "0", ".", "1", ".", "0">>,
     VERSION_COLON, VERSION_COLON_SP,
     <<"n", "a", "m", "e", ":", " ", "a">>,
     <<" ", "v", "e", "r", "s", "i", "o", "n", ":", " ", "9">>,
     <<>>}

\* the lines of ls, each followed by a newline
RECURSIVE JoinLines(_)
JoinLines(ls) == IF Len(ls) = 0 THEN <<>> ELSE ls[1] \o <<NL>> \o JoinLines(Tail(ls))

PubspecTexts ==
    LET seqs == UNION {[1..n -> PubspecLines] : n \in 0..MaxLines}
    IN  {JoinLines(ls) : ls \in seqs}
            \cup {Slice(JoinLines(ls), 1, Len(JoinLines(ls)) - 1) : ls \in seqs}

InitSync ==
    /\ fs \in {[g EXCEPT !.pubspec[ClientPubspec].text = t] :
                  g \in {MkFs(YamlFile(Doc1), NoText), MkFs(NoYaml, OldFile(Old1))},
                  t \in PubspecTexts}
    /\ pre = fs
    /\ last = NoCall
    /\ nOps = 0
    /\ inp = <<>>
    /\ out = NoOut
    /\ pc = "idle"
    /\ loc = NoLoc

NextSync == SyncToPubspec

SpecSync == InitSync /\ [][NextSync]_vars

\* the file sync_to_pubspec(last.target, last.path) works on
SyncPath ==
    IF last.path # "None" THEN last.path
    ELSE IF last.target = "client" THEN ClientPubspec ELSE ServerPubspec

\* major.minor.patch+build of the stored version v (build 1 without suffix)
FullOf(v) == IF Contains(v, "+") THEN v ELSE v \o <<"+", "1">>

\* line is a 'version:' declaration
IsDecl(line) == StartsWithAt(line, 1, VERSION_COLON)

\* the text new is the text old with one declaration line replaced by decl
OneLineRewritten(old, new, decl) ==
    LET a == split(old, NL)
        b == split(new, NL)
    IN  \E i \in 1..Len(a) : IsDecl(a[i]) /\ b = [a EXCEPT ![i] = decl]

(***************************************************************************)
(* C14.  sync_to_pubspec(t, path) rewrites exactly one line of the         *)
(* build-metadata file, the 'version:' declaration, to                     *)
(* 'version: <major.minor.patch+build of t>' and leaves every other line   *)
(* unchanged, whatever the file holds; a file without declaration stays as *)
(* it is.  When path does not exist the call fails with the not-found      *)
(* error and writes nothing.                                               *)
(***************************************************************************)
C14_OneLineRewritten ==
    /\ last.op = "sync_to_pubspec"
    /\ last.target \in RealTargets
    /\ WellFormed(StoredFor(pre, last.target))
    => IF ~pre.pubspec[SyncPath].exists
       THEN ~last.ok /\ last.err = "NotFound" /\ fs = pre
       ELSE LET old == pre.pubspec[SyncPath].text
                new == fs.pubspec[SyncPath].text
                decl == VERSION_COLON_SP \o FullOf(StoredFor(pre, last.target))
            IN  /\ last.ok
                /\ fs = [pre EXCEPT !.pubspec[SyncPath].text = new]
                /\ IF \E i \in 1..Len(split(old, NL)) : IsDecl(split(old, NL)[i])
                   THEN OneLineRewritten(old, new, decl)
                   ELSE new = old

(***************************************************************************)
(* calculate_file_hashes.py.  A path is a string; an absolute path is kept *)
(* as the sequence of its components.  The scanned tree maps the relative  *)
(* paths of the walk to what is found there.                               *)
(***************************************************************************)
SEP == "/"

DOTDOT == <<".", ".">>

\* os.path.isabs
isabs(s) == Len(s) > 0 /\ s[1] = SEP

\* the components joined by '/'
RECURSIVE JoinPath(_)
JoinPath(comps) ==
    IF Len(comps) = 0 THEN <<>>
    ELSE IF Len(comps) = 1 THEN comps[1]
    ELSE comps[1] \o <<SEP>> \o JoinPath(Tail(comps))

\* os.path.normpath on components: '' and '.' dropped, '..' steps up
RECURSIVE NormPath(_, _)
NormPath(stack, comps) ==
    IF Len(comps) = 0 THEN stack
    ELSE LET c == comps[1]
         IN  IF c = <<>> \/ c = <<".">> THEN NormPath(stack, Tail(comps))
             ELSE IF c = DOTDOT
             THEN NormPath(Slice(stack, 1, Len(stack) - 1), Tail(comps))
             ELSE NormPath(Append(stack, c), Tail(comps))

\* the working directory of the process
Cwd == <<<<"w">>>>

\* os.path.abspath, as components
abspath(s) == NormPath(IF isabs(s) THEN <<>> ELSE Cwd, split(s, SEP))

\* the absolute path with components comps, as a string
AbsString(comps) == <<SEP>> \o JoinPath(comps)

\* os.path.join(a, b)
join(a, b) == IF isabs(b) THEN b ELSE a \o <<SEP>> \o b

\* the length of the common prefix of two component sequences
RECURSIVE CommonLen(_, _)
CommonLen(a, b) ==
    IF Len(a) > 0 /\ Len(b) > 0 /\ a[1] = b[1] THEN 1 + CommonLen(Tail(a), Tail(b)) ELSE 0

\* os.path.relpath(path, start) of two absolute paths, as a string
relpath(path, start) ==
    LET k == CommonLen(path, start)
        ups == [i \in 1..(Len(start) - k) |-> DOTDOT]
        rel == ups \o Slice(path, k + 1, Len(path))
    IN  IF Len(rel) = 0 THEN <<".">> ELSE JoinPath(rel)

\* str.startswith
startswith(s, p) == Len(s) >= Len(p) /\ Slice(s, 1, Len(p)) = p

\* os.path.basename
basename(s) == Slice(s, LastIndex(s, SEP) + 1, Len(s))

\* hashlib.sha256 of a file's content, as a hex digest
sha256(data) == <<"sha256", data>>

\* what a path of the tree holds: nothing, a regular file with its content,
\* a regular file that may not be read, one whose read fails, or an entry
\* that is not a regular file (a FIFO, a dangling link)
Nothing == [kind |-> "none", data |-> ""]

RegularFile(data) == [kind |-> "file", data |-> data]

LockedFile == [kind |-> "locked", data |-> ""]

\* a regular file whose read fails with an I/O error
FailingFile == [kind |-> "failing", data |-> ""]

SpecialFile == [kind |-> "special", data |-> ""]

\* os.path.isfile
isfile(e) == e.kind \in {"file", "locked", "failing"}

\* calculate_file_hash of the entry e
calculate_file_hash(e) ==
    IF e.kind = "none" THEN Raise("FileNotFoundError")
    ELSE IF e.kind = "locked" THEN Raise("PermissionError")
    ELSE IF e.kind = "failing" THEN Raise("OSError")
    ELSE Ok(sha256(e.data))

\* the directory given as --input-dir, and its absolute path
InputDir == <<SEP, "i", "n">>

InputRoot == abspath(InputDir)

\* the relative paths os.walk can meet, in the order it yields them: the
\* files of the root, then the files of the subdirectory d
P_a == <<<<"a">>>>

P_dot == <<<<".", ".", "o">>>>

P_s == <<<<"s">>>>

P_d_a == <<<<"d">>, <<"a">>>>

WalkOrder == <<P_a, P_dot, P_s, P_d_a>>

\* the non-directory entries of the tree, as os.walk lists them
WalkFiles(tree) ==
    SelectSeq(WalkOrder, LAMBDA p : tree[p].kind # "none")

\* the loop body of calculate_hashes_for_directory for the entry at p, that
\* only counts errors of the class PermissionError
VisitPermissionOnly(acc, tree, p, input_dir, exclude_abs_paths) ==
    LET file_path == join(input_dir, JoinPath(p))
        file_abs_path == abspath(file_path)
        relative_path == relpath(file_abs_path, abspath(input_dir))
        h == calculate_file_hash(tree[p])
    IN  IF file_abs_path \in exclude_abs_paths
        THEN [acc EXCEPT !.skipped_count = acc.skipped_count + 1]
        ELSE IF isfile(tree[p])
        THEN IF h.ok
             THEN [acc EXCEPT !.file_hashes = DictSet(acc.file_hashes, relative_path, h.val)]
             ELSE IF h.err = "PermissionError"
             THEN [acc EXCEPT !.error_count = acc.error_count + 1]
             ELSE [acc EXCEPT !.ok = FALSE, !.err = h.err]
        ELSE acc

\* the loop body of calculate_hashes_for_directory for the entry at p
Visit(acc, tree, p, input_dir, exclude_abs_paths) ==
    LET file_path == join(input_dir, JoinPath(p))
        file_abs_path == abspath(file_path)
        relative_path == relpath(file_abs_path, abspath(input_dir))
        h == calculate_file_hash(tree[p])
    IN  IF file_abs_path \in exclude_abs_paths
        THEN [acc EXCEPT !.skipped_count = acc.skipped_count + 1]
        ELSE IF isfile(tree[p])
        THEN IF h.ok
             THEN [acc EXCEPT !.file_hashes = DictSet(acc.file_hashes, relative_path, h.val)]
             ELSE IF h.err = "PermissionError"
             THEN [acc EXCEPT !.error_count = acc.error_count + 1]
             ELSE [acc EXCEPT !.error_count = acc.error_count + 1]
        ELSE acc

RECURSIVE VisitAll(_, _, _, _, _)
VisitAll(acc, tree, ps, input_dir, exclude_abs_paths) ==
    IF Len(ps) = 0 \/ ~acc.ok THEN acc
    ELSE VisitAll(Visit(acc, tree, ps[1], input_dir, exclude_abs_paths), tree, Tail(ps),
                  input_dir, exclude_abs_paths)

\* the conversion of exclude_files to absolute paths that resolves relative
\* paths against the working directory
ExcludeAbsPathsCwd(t, input_dir, exclude_files) ==
    {abspath(exclude_files[i]) : i \in 1..Len(exclude_files)} \cup {t.script}

\* the conversion of exclude_files to absolute paths, and the script's own path
ExcludeAbsPaths(t, input_dir, exclude_files) ==
    {IF isabs(exclude_files[i]) THEN abspath(exclude_files[i])
     ELSE abspath(join(input_dir, exclude_files[i])) : i \in 1..Len(exclude_files)}
        \cup {t.script}

\* calculate_hashes_for_directory: the mapping and the two counters, or the
\* exception raised
calculate_hashes_for_directory(t, input_dir, exclude_files) ==
    LET acc0 == [ok |-> TRUE, err |-> "", file_hashes |-> <<>>, skipped_count |-> 0,
                 error_count |-> 0]
    IN  IF abspath(input_dir) # InputRoot
        THEN [acc0 EXCEPT !.ok = FALSE, !.err = "NotADirectoryError"]
        ELSE VisitAll(acc0, t.tree, WalkFiles(t.tree), input_dir,
                      ExcludeAbsPaths(t, input_dir, exclude_files))

\* the loop of --base-name-only: later files of the walk overwrite earlier
\* ones of the same name
RECURSIVE BaseNames(_, _)
BaseNames(file_hashes_base, items) ==
    IF Len(items) = 0 THEN file_hashes_base
    ELSE BaseNames(DictSet(file_hashes_base, basename(items[1][1]), items[1][2]),
                   Tail(items))

\* the relative path of the tree an absolute path names, <<>> outside of it
TreePath(abs) ==
    IF Len(abs) > Len(InputRoot) /\ Slice(abs, 1, Len(InputRoot)) = InputRoot
    THEN Slice(abs, Len(InputRoot) + 1, Len(abs))
    ELSE <<>>

\* the JSON text json.dump writes
ManifestFile == [kind |-> "file", data |-> "manifest"]

\* main of calculate_file_hashes.py: the exit status, the mapping written
\* and the tree afterwards
main(t, input_dir, output, base_name_only) ==
    LET output_abs_path == abspath(output)
        input_dir_abs == abspath(input_dir)
        output_rel_path == relpath(output_abs_path, input_dir_abs)
        exclude_files == IF ~startswith(output_rel_path, DOTDOT)
                         THEN <<output_rel_path>> ELSE <<>>
        r == calculate_hashes_for_directory(t, input_dir, exclude_files)
        file_hashes == IF base_name_only THEN BaseNames(<<>>, r.file_hashes)
                       ELSE r.file_hashes
        p == TreePath(output_abs_path)
    IN  IF ~r.ok THEN [ok |-> FALSE, err |-> r.err, val |-> <<>>, fs |-> t]
        ELSE IF Len(r.file_hashes) = 0
        THEN [ok |-> FALSE, err |-> "NoFiles", val |-> <<>>, fs |-> t]
        ELSE IF p \in DOMAIN t.tree /\ t.tree[p].kind = "locked"
        THEN [ok |-> FALSE, err |-> "PermissionError", val |-> <<>>, fs |-> t]
        ELSE [ok |-> TRUE, err |-> "", val |-> file_hashes,
              fs |-> IF p \in DOMAIN t.tree
                     THEN [t EXCEPT !.tree[p] = ManifestFile] ELSE t]

\* the places the script can be installed at: in the scanned tree or not
ScriptInside == InputRoot \o P_s

ScriptOutside == <<<<"b">>, <<"s">>>>

Trees ==
    {[p \in {P_a, P_dot, P_s, P_d_a} |->
         IF p = P_a THEN a ELSE IF p = P_dot THEN o ELSE IF p = P_s THEN s ELSE da] :
        a \in {Nothing, RegularFile("x"), LockedFile, FailingFile, SpecialFile},
        o \in {Nothing, RegularFile("m")},
        s \in {Nothing, RegularFile("py")},
        da \in {Nothing, RegularFile("y"), LockedFile}}

InitHash ==
    /\ fs \in {[tree |-> tr, script |-> sc] :
                  tr \in Trees, sc \in {ScriptInside, ScriptOutside}}
    /\ fs.script = ScriptInside => fs.tree[P_s].kind = "file"
    /\ pre = fs
    /\ last = NoCall
    /\ nOps = 0
    /\ inp = <<>>
    /\ out = NoOut
    /\ pc = "idle"
    /\ loc = NoLoc

\* a directory that does not exist
MissingDir == <<SEP, "n", "o">>

\* exclude_files arguments: none, a relative path, an absolute path, one file
\* named twice, two files, a file that does not exist
ExcludeArgs ==
    {<<>>,
     <<<<"a">>>>,
     <<<<SEP, "i", "n", SEP, "d", SEP, "a">>>>,
     <<<<"a">>, <<SEP, "i", "n", SEP, "a">>>>,
     <<<<"d", SEP, "a">>, <<".", ".", "o">>>>,
     <<<<"x">>>>}

\* --output arguments: two files in the scanned tree, the first of them also
\* as a relative path, and a file elsewhere
OutputArgs ==
    {<<SEP, "i", "n", SEP, ".", ".", "o">>,
     <<".", ".", SEP, "i", "n", SEP, ".", ".", "o">>,
     <<SEP, "i", "n", SEP, "d", SEP, "a">>,
     <<SEP, "t", SEP, "m">>}

CalculateHashes ==
    \E d \in {InputDir, MissingDir}, ex \in ExcludeArgs :
        LET r == calculate_hashes_for_directory(fs, d, ex)
        IN  /\ d = MissingDir => ex = <<>>
            /\ pre' = fs
            /\ last' = [op |-> "calculate_hashes_for_directory", input_dir |-> d,
                        exclude_files |-> ex, output |-> <<>>, base_name_only |-> FALSE]
            /\ out' = [fn |-> "calculate_hashes_for_directory", ok |-> r.ok,
                       err |-> r.err, val |-> r.file_hashes,
                       skipped_count |-> r.skipped_count, error_count |-> r.error_count]
            /\ UNCHANGED <<fs, nOps, inp, pc, loc>>

Main ==
    \E o \in OutputArgs, b \in BOOLEAN :
        LET r == main(fs, InputDir, o, b)
        IN  /\ pre' = fs
            /\ fs' = r.fs
            /\ last' = [op |-> "main", input_dir |-> InputDir, exclude_files |-> <<>>,
                        output |-> o, base_name_only |-> b]
            /\ out' = [fn |-> "main", ok |-> r.ok, err |-> r.err, val |-> r.val,
                       skipped_count |-> 0, error_count |-> 0]
            /\ UNCHANGED <<nOps, inp, pc, loc>>

NextHash == CalculateHashes \/ Main

SpecHash == InitHash /\ [][NextHash]_vars

\* the relative paths of the tree t
TreePaths(t) == DOMAIN t.tree

\* the regular files of the tree t
RegularFiles(t) == {p \in TreePaths(t) : t.tree[p].kind \in {"file", "locked", "failing"}}

\* the regular files of t whose read fails
Unreadable(t) == {p \in TreePaths(t) : t.tree[p].kind \in {"locked", "failing"}}

\* the file at p is named in the list ex, relative to the root or absolutely
NamedIn(ex, p) ==
    \E i \in 1..Len(ex) :
        ex[i] = JoinPath(p) \/ ex[i] = AbsString(InputRoot \o p)

\* the file at p of the tree t is the hashing script
IsScript(t, p) == InputRoot \o p = t.script

\* the keys of a mapping
Keys(d) == {d[i][1] : i \in 1..Len(d)}

\* the mapping d has exactly one entry for each file of ps in the tree t,
\* keyed by the path relative to the root, with the digest of the file
EntriesFor(d, t, ps) ==
    /\ Len(d) = Cardinality(ps)
    /\ Keys(d) = {JoinPath(p) : p \in ps}
    /\ \A p \in ps : DictGet(d, JoinPath(p)) = sha256(t.tree[p].data)

\* a call of calculate_hashes_for_directory on an existing directory whose
\* files can all be read has returned
HashedAll ==
    /\ last.op = "calculate_hashes_for_directory"
    /\ last.input_dir = InputDir
    /\ Unreadable(pre) = {}

(***************************************************************************)
(* C15.  Exclusion correctness of calculate_hashes_for_directory: for a    *)
(* tree of N regular files of which M are named in exclude_files, as       *)
(* absolute paths or relative to the scanned root, and without read        *)
(* failure, the returned mapping has exactly N-M entries, one per file     *)
(* that is not excluded, keyed by its path relative to the root, and no    *)
(* entry for an excluded file.                                             *)
(***************************************************************************)
C15_Exclusion ==
    HashedAll
    => LET M == {p \in RegularFiles(pre) : NamedIn(last.exclude_files, p)}
       IN  /\ out.ok
           /\ Len(out.val) = Cardinality(RegularFiles(pre)) - Cardinality(M)
           /\ EntriesFor(out.val, pre, RegularFiles(pre) \ M)

\* C15, amended: the M excluded files are those named in exclude_files and
\* the hashing script itself, when it lies in the scanned tree
C15_ExclusionAmended ==
    HashedAll
    => LET M == {p \in RegularFiles(pre) :
                    NamedIn(last.exclude_files, p) \/ IsScript(pre, p)}
       IN  /\ out.ok
           /\ Len(out.val) = Cardinality(RegularFiles(pre)) - Cardinality(M)
           /\ EntriesFor(out.val, pre, RegularFiles(pre) \ M)

\* four regular files, two of them excluded by name and one of them the
\* script itself: one entry is returned
C15_Witness ==
    /\ HashedAll
    /\ pre.script = ScriptInside
    /\ Cardinality(RegularFiles(pre)) = 4
    /\ last.exclude_files = <<<<"d", SEP, "a">>, <<".", ".", "o">>>>
    /\ Keys(out.val) = {<<"a">>}

\* the key the written mapping uses for the file at p
KeyOf(p) == IF last.base_name_only THEN p[Len(p)] ELSE JoinPath(p)

\* the written mapping has an entry made from the file at p of the tree t
\* (the files of the trees have contents that differ from one another)
HasEntryOf(d, t, p) ==
    /\ p \in RegularFiles(t)
    /\ KeyOf(p) \in Keys(d)
    /\ DictGet(d, KeyOf(p)) = sha256(t.tree[p].data)

\* the relative path of the tree that --output names, <<>> outside the tree
OutputInTree == TreePath(abspath(last.output))

(***************************************************************************)
(* C16.  The written hash manifest never has an entry for the hashing      *)
(* script or for its own output file: whenever --output names a place in   *)
(* --input-dir, whatever the file name and whether or not an earlier run   *)
(* left the file there, the mapping has no key for it; and every key names *)
(* a regular file that was under the scanned root at scan time.            *)
(***************************************************************************)
C16_NoSelfEntry ==
    last.op = "main" /\ out.ok
    => /\ \A p \in TreePaths(pre) : IsScript(pre, p) => ~HasEntryOf(out.val, pre, p)
       /\ OutputInTree # <<>> => ~HasEntryOf(out.val, pre, OutputInTree)
       /\ \A k \in Keys(out.val) :
              \E p \in RegularFiles(pre) : KeyOf(p) = k /\ HasEntryOf(out.val, pre, p)

\* the files of the tree t the call leaves out: those named in the list ex
\* and the script
ExcludedFiles(t, ex) ==
    {p \in TreePaths(t) : NamedIn(ex, p) \/ IsScript(t, p)}

\* a call of calculate_hashes_for_directory on an existing directory has
\* met at least one file whose read fails
HashedWithFailure ==
    /\ last.op = "calculate_hashes_for_directory"
    /\ last.input_dir = InputDir
    /\ Unreadable(pre) \ ExcludedFiles(pre, last.exclude_files) # {}

(***************************************************************************)
(* C17.  A per-file hashing failure is recovered locally: when the read of *)
(* a file fails during the walk, the file gets no entry, the error counter *)
(* grows by one, the walk goes on and every other file that is not         *)
(* excluded still gets its entry; the pass as a whole does not raise.      *)
(***************************************************************************)
C17_LocalRecovery ==
    last.op = "calculate_hashes_for_directory" /\ last.input_dir = InputDir
    => LET ex == ExcludedFiles(pre, last.exclude_files)
           failed == Unreadable(pre) \ ex
       IN  /\ out.ok
           /\ out.error_count = Cardinality(failed)
           /\ \A p \in failed : JoinPath(p) \notin Keys(out.val)
           /\ EntriesFor(out.val, pre, (RegularFiles(pre) \ ex) \ failed)

\* the first file of the walk fails with an I/O error, a later one for want
\* of permission, and the files after and between them are in the mapping
C17_Witness ==
    /\ HashedWithFailure
    /\ pre.tree[P_a].kind = "failing"
    /\ pre.tree[P_d_a].kind = "locked"
    /\ out.error_count = 2
    /\ Keys(out.val) = {JoinPath(P_dot), JoinPath(P_s)}

(***************************************************************************)
(* generate_update_config.py.  The three artifacts are files that exist or *)
(* not; the hash list is a dict read from the --file-hashes file.          *)
(***************************************************************************)
\* extract_version_number that returns its argument as it is
extract_version_number_whole(full_version) == full_version

\* extract_version_number
extract_version_number(full_version) ==
    IF Contains(full_version, "+") THEN split(full_version, "+")[1] ELSE full_version

\* file_hashes: None, or a dict
NoneHashes == [none |-> TRUE, items |-> <<>>]

HashDict(items) == [none |-> FALSE, items |-> items]

\* 'if file_hashes:' is false for None and for an empty dict
Truthy(file_hashes) == ~file_hashes.none /\ Len(file_hashes.items) > 0

\* get_file_hash that looks the bare file name up before the path
get_file_hash_name_first(files, file_hashes, file_path, file_name) ==
    IF Truthy(file_hashes) /\ DictHas(file_hashes.items, file_name)
    THEN Ok(DictGet(file_hashes.items, file_name))
    ELSE IF Truthy(file_hashes) /\ DictHas(file_hashes.items, file_path)
    THEN Ok(DictGet(file_hashes.items, file_path))
    ELSE calculate_file_hash(files[file_path])

\* get_file_hash, the function nested in generate_update_config
get_file_hash(files, file_hashes, file_path, file_name) ==
    IF Truthy(file_hashes) /\ DictHas(file_hashes.items, file_path)
    THEN Ok(DictGet(file_hashes.items, file_path))
    ELSE IF Truthy(file_hashes) /\ DictHas(file_hashes.items, file_name)
    THEN Ok(DictGet(file_hashes.items, file_name))
    ELSE calculate_file_hash(files[file_path])

HTTPS_GITHUB == <<"h", "t", "t", "p", "s", ":", "/", "/", "g", "i", "t", "h", "u", "b", ".", "c", "o", "m", "/">>

HTTPS_GITEE == <<"h", "t", "t", "p", "s", ":", "/", "/", "g", "i", "t", "e", "e", ".", "c", "o", "m", "/">>

RELEASES_DOWNLOAD == <<"/", "r", "e", "l", "e", "a", "s", "e", "s", "/", "d", "o", "w", "n", "l", "o", "a", "d", "/">>

\* the default base_url that has no '/' between owner and repository
DefaultBaseUrlNoSlash(a) ==
    (IF a.repo_type = "gitee" THEN HTTPS_GITEE ELSE HTTPS_GITHUB)
        \o a.repo_owner \o a.repo_name \o RELEASES_DOWNLOAD \o a.tag_version

\* the default base_url, by repo_type
DefaultBaseUrl(a) ==
    (IF a.repo_type = "gitee" THEN HTTPS_GITEE ELSE HTTPS_GITHUB)
        \o a.repo_owner \o <<SEP>> \o a.repo_name \o RELEASES_DOWNLOAD \o a.tag_version

\* a default update check URL that keeps the GitHub release and file name
\* for the backend gitee
DefaultUpdateCheckUrlOneScheme(a) ==
    (IF a.repo_type = "gitee" THEN HTTPS_GITEE ELSE HTTPS_GITHUB)
        \o a.repo_owner \o <<SEP>> \o a.repo_name \o RELEASES_DOWNLOAD
        \o <<"U", "p", "d", "a", "t", "e", "C", "o", "n", "f", "i", "g", "/", "u", "p", "d", "a", "t", "e", "_", "c", "o", "n", "f", "i", "g", "_", "g", "i", "t", "h", "u", "b", ".", "j", "s", "o", "n">>

\* the default update_check_url, by repo_type
DefaultUpdateCheckUrl(a) ==
    IF a.repo_type = "gitee"
    THEN HTTPS_GITEE \o a.repo_owner \o <<SEP>> \o a.repo_name
             \o RELEASES_DOWNLOAD \o <<"c", "o", "n", "f", "i", "g", "/", "u", "p", "d", "a", "t", "e", "_", "c", "o", "n", "f", "i", "g", "_", "g", "i", "t", "e", "e", ".", "j", "s", "o", "n">>
    ELSE HTTPS_GITHUB \o a.repo_owner \o <<SEP>> \o a.repo_name
             \o RELEASES_DOWNLOAD \o <<"U", "p", "d", "a", "t", "e", "C", "o", "n", "f", "i", "g", "/", "u", "p", "d", "a", "t", "e", "_", "c", "o", "n", "f", "i", "g", "_", "g", "i", "t", "h", "u", "b", ".", "j", "s", "o", "n">>

\* one entry of "platforms"
PlatformEntry(version, base_url, file, platform, hash) ==
    [version |-> version, versionNumber |-> extract_version_number(version),
     downloadUrl |-> base_url \o <<SEP>> \o basename(file), fileName |-> basename(file),
     fileType |-> "zip", platform |-> platform, fileHash |-> hash]

\* the config dict, from the arguments a and the three hashes; an optional
\* argument is <<>> for None and <<v>> for the value v
Config(a, macos_hash, windows_hash, android_hash) ==
    LET base_url == IF a.base_url = <<>> THEN DefaultBaseUrl(a) ELSE a.base_url[1]
        update_check_url == IF a.update_check_url = <<>> THEN DefaultUpdateCheckUrl(a)
                            ELSE a.update_check_url[1]
    IN  [client |->
             [version |-> a.client_version,
              versionNumber |-> extract_version_number(a.client_version),
              platforms |->
                  [macos |-> PlatformEntry(a.client_version, base_url, a.macos_file,
                                           "macos", macos_hash),
                   windows |-> PlatformEntry(a.client_version, base_url, a.windows_file,
                                             "windows", windows_hash)]],
         server |->
             [version |-> a.server_version,
              versionNumber |-> extract_version_number(a.server_version),
              platforms |->
                  [android |-> PlatformEntry(a.server_version, base_url, a.android_file,
                                             "android", android_hash)]],
         updateCheckUrl |-> update_check_url,
         lastUpdated |-> "utcnow"]

\* generate_update_config: the config, or the exception of a digest
generate_update_config(files, a, file_hashes) ==
    LET macos_hash == get_file_hash(files, file_hashes, a.macos_file, basename(a.macos_file))
        windows_hash ==
            get_file_hash(files, file_hashes, a.windows_file, basename(a.windows_file))
        android_hash ==
            get_file_hash(files, file_hashes, a.android_file, basename(a.android_file))
    IN  IF ~macos_hash.ok THEN Raise(macos_hash.err)
        ELSE IF ~windows_hash.ok THEN Raise(windows_hash.err)
        ELSE IF ~android_hash.ok THEN Raise(android_hash.err)
        ELSE Ok(Config(a, macos_hash.val, windows_hash.val, android_hash.val))

\* os.path.exists that holds of every path
ExistsAlways(e) == TRUE

\* os.path.exists
exists(e) == e.kind # "none"

\* the paths given as --macos-file, --windows-file and --android-file
MACOS_FILE == <<"d", "/", "m">>

WINDOWS_FILE == <<"w">>

ANDROID_FILE == <<"e", "/", "a">>

\* the artifacts in the order main checks them and generate_update_config
\* resolves their hashes
Artifacts(a) == <<a.macos_file, a.windows_file, a.android_file>>

\* the --file-hashes file: not given or absent, unparseable, or a dict
NoHashFile == [kind |-> "none", items |-> <<>>]

CorruptHashFile == [kind |-> "corrupt", items |-> <<>>]

HashFile(items) == [kind |-> "list", items |-> items]

\* hash lists: empty; macOS under path and name and Android under its name;
\* all three under their names; all three under their paths; a value that
\* is no digest; an unrelated key
HashFiles ==
    {NoHashFile, CorruptHashFile,
     HashFile(<<>>),
     HashFile(<< <<<<"m">>, <<"n", "1">>>>, <<<<"d", "/", "m">>, <<"p", "1">>>>, <<<<"a">>, <<"n", "3">>>> >>),
     HashFile(<< <<<<"m">>, <<"n", "1">>>>, <<<<"w">>, <<"n", "2">>>>, <<<<"a">>, <<"n", "3">>>> >>),
     HashFile(<< <<<<"d", "/", "m">>, <<"p", "1">>>>, <<<<"w">>, <<"p", "2">>>>, <<<<"e", "/", "a">>, <<"p", "3">>>> >>),
     HashFile(<< <<<<"e", "/", "a">>, <<>>>> >>),
     HashFile(<< <<<<"x">>, <<"q">>>> >>)}

ArtifactFiles ==
    {[p \in {MACOS_FILE, WINDOWS_FILE, ANDROID_FILE} |->
         IF p = MACOS_FILE THEN m ELSE IF p = WINDOWS_FILE THEN w ELSE a] :
        m \in {Nothing, RegularFile("M")},
        w \in {Nothing, RegularFile("W")},
        a \in {Nothing, RegularFile("A"), LockedFile}}

\* the file at --output: absent, or the JSON text of the config c
NoManifest == [kind |-> "none", data |-> <<>>]

ManifestOf(c) == [kind |-> "file", data |-> <<c>>]

\* the file at --output before the run: absent, or an earlier manifest
OutputFiles == {NoManifest, ManifestOf([lastUpdated |-> "t0"])}

\* the command lines: --client-version well-formed or not, --base-url
\* absent (<<>>) or given, --repo-type
BuildArgs ==
    {[client_version |-> c, server_version |-> V_02_9_9,
      macos_file |-> MACOS_FILE, windows_file |-> WINDOWS_FILE,
      android_file |-> ANDROID_FILE, tag_version |-> <<"v", "1">>, repo_owner |-> <<"o">>,
      repo_name |-> <<"r">>, base_url |-> b, update_check_url |-> <<>>,
      repo_type |-> t] :
        c \in {V_1_0_7_10, <<"1", ".", "x">>},
        b \in {<<>>, <<<<"u">>>>}, t \in {"github", "gitee"}}

InitBuild ==
    /\ fs \in {[files |-> f, hashFile |-> h, output |-> o] :
                f \in ArtifactFiles, h \in HashFiles, o \in OutputFiles}
    /\ inp \in BuildArgs
    /\ pre = fs
    /\ last = NoCall
    /\ nOps = 0
    /\ out = NoOut
    /\ pc = "start"
    /\ loc = NoLoc

\* main, lines 268-280: the hash list is loaded when the file is there and
\* parses, and is None otherwise
LoadFileHashes ==
    /\ pc = "start"
    /\ loc' = [file_hashes |-> IF fs.hashFile.kind = "list"
                               THEN HashDict(fs.hashFile.items) ELSE NoneHashes,
               i |-> 1, hashes |-> <<>>, events |-> <<>>]
    /\ pc' = "check"
    /\ UNCHANGED <<fs, pre, last, nOps, inp, out>>

\* main, lines 284-291: one turn of the existence loop
CheckExists ==
    /\ pc = "check"
    /\ LET file == Artifacts(inp)[loc.i]
       IN  /\ loc' = [loc EXCEPT !.events = Append(@, [kind |-> "exists", file |-> file]),
                                 !.i = IF loc.i = 3 THEN 1 ELSE loc.i + 1]
           /\ IF ~exists(fs.files[file])
              THEN /\ pc' = "exit1"
                   /\ out' = [fn |-> "main", ok |-> FALSE, err |-> "ArtifactNotFound",
                              val |-> <<>>]
              ELSE /\ pc' = IF loc.i = 3 THEN "hash" ELSE "check"
                   /\ out' = out
    /\ UNCHANGED <<fs, pre, last, nOps, inp>>

\* generate_update_config, lines 129-131: one call of get_file_hash
GetFileHash ==
    /\ pc = "hash"
    /\ LET file == Artifacts(inp)[loc.i]
           h == get_file_hash(fs.files, loc.file_hashes, file, basename(file))
       IN  /\ loc' = [loc EXCEPT !.events = Append(@, [kind |-> "hash", file |-> file]),
                                 !.hashes = IF h.ok THEN Append(@, h.val) ELSE @,
                                 !.i = IF loc.i = 3 THEN 1 ELSE loc.i + 1]
           /\ IF ~h.ok
              THEN /\ pc' = "exit1"
                   /\ out' = [fn |-> "main", ok |-> FALSE, err |-> h.err, val |-> <<>>]
              ELSE /\ pc' = IF loc.i = 3 THEN "write" ELSE "hash"
                   /\ out' = out
    /\ UNCHANGED <<fs, pre, last, nOps, inp>>

\* the config is built and written to --output
WriteConfig ==
    /\ pc = "write"
    /\ out' = [fn |-> "main", ok |-> TRUE, err |-> "",
               val |-> Config(inp, loc.hashes[1], loc.hashes[2], loc.hashes[3])]
    /\ fs' = [fs EXCEPT !.output =
                  ManifestOf(Config(inp, loc.hashes[1], loc.hashes[2], loc.hashes[3]))]
    /\ pc' = "done"
    /\ UNCHANGED <<pre, last, nOps, inp, loc>>

NextBuild ==
    \/ LoadFileHashes
    \/ CheckExists
    \/ GetFileHash
    \/ WriteConfig

SpecBuild == InitBuild /\ [][NextBuild]_vars

\* the entries of "platforms" of the config c, in the order of Artifacts
PlatformEntries(c) ==
    <<c.client.platforms.macos, c.client.platforms.windows, c.server.platforms.android>>

\* the hash list main passes on has the key k
Listed(k) == ~loc.file_hashes.none /\ DictHas(loc.file_hashes.items, k)

\* the fileHash the resolution order gives the artifact at path
ResolvedHash(path) ==
    IF Listed(path) THEN DictGet(loc.file_hashes.items, path)
    ELSE IF Listed(basename(path)) THEN DictGet(loc.file_hashes.items, basename(path))
    ELSE sha256(fs.files[path].data)

(***************************************************************************)
(* C18.  Hash resolution order in generate_update_config: the fileHash of  *)
(* each of the three artifacts is the hash list's value under the          *)
(* artifact's path as given, if there is that key; else its value under    *)
(* the bare file name, if there is that key; else a fresh digest of the    *)
(* file.  A value of the list is used as it is.                            *)
(***************************************************************************)
C18_ResolutionOrder ==
    pc = "done"
    => \A k \in 1..3 :
           PlatformEntries(out.val)[k].fileHash = ResolvedHash(Artifacts(inp)[k])

\* macOS is listed under path and name and gets the value of the path,
\* Windows is not listed and gets a fresh digest, Android gets the value
\* listed under its name
C18_Witness ==
    /\ pc = "done"
    /\ Listed(MACOS_FILE) /\ Listed(basename(MACOS_FILE))
    /\ ~Listed(WINDOWS_FILE)
    /\ ~Listed(ANDROID_FILE) /\ Listed(basename(ANDROID_FILE))
    /\ out.val.client.platforms.macos.fileHash = <<"p", "1">>
    /\ out.val.client.platforms.windows.fileHash = sha256("W")
    /\ out.val.server.platforms.android.fileHash = <<"n", "3">>

\* the artifacts that do not exist
MissingArtifacts ==
    {k \in 1..3 : fs.files[Artifacts(inp)[k]].kind = "none"}

\* the run has done the steps of kind
Did(kind) == {j \in 1..Len(loc.events) : loc.events[j].kind = kind}

(***************************************************************************)
(* C19.  Building an update manifest fails with the artifact-not-found     *)
(* error if any of the three artifact files does not exist, and the        *)
(* existence check of all three files is complete before any hash lookup   *)
(* or digest starts, also when the hash list holds all three digests.      *)
(***************************************************************************)
C19_CheckBeforeHashing ==
    pc # "start"
    => /\ \A j \in Did("hash") :
              /\ j > 3
              /\ \A k \in 1..3 : loc.events[k] = [kind |-> "exists", file |-> Artifacts(inp)[k]]
       /\ MissingArtifacts # {} /\ pc # "check"
          => pc = "exit1" /\ out.err = "ArtifactNotFound" /\ Did("hash") = {}
       /\ pc = "done" => MissingArtifacts = {}

\* the hash list holds the three digests, the last artifact is missing: the
\* run has failed after three existence checks and no hash step
C19_Witness ==
    /\ pc = "exit1"
    /\ \A k \in 1..3 : Listed(Artifacts(inp)[k])
    /\ MissingArtifacts = {3}
    /\ Len(loc.events) = 3
    /\ out.err = "ArtifactNotFound"

\* github.com or gitee.com, by backend
Host(repo_type) == IF repo_type = "gitee" THEN <<"g", "i", "t", "e", "e", ".", "c", "o", "m">> ELSE <<"g", "i", "t", "h", "u", "b", ".", "c", "o", "m">>

\* https://{host}/{owner}/{repo}/releases/download/{tag}/{fileName}
DownloadUrl(host, a, path) ==
    <<"h", "t", "t", "p", "s", ":", "/", "/">> \o host \o <<SEP>> \o a.repo_owner \o <<SEP>> \o a.repo_name
        \o <<"/", "r", "e", "l", "e", "a", "s", "e", "s", "/", "d", "o", "w", "n", "l", "o", "a", "d", "/">> \o a.tag_version \o <<SEP>> \o basename(path)

\* the other backend
OtherBackend(repo_type) == IF repo_type = "gitee" THEN "github" ELSE "gitee"

\* url without the scheme and the host
AfterHost(url, host) == Slice(url, Len(<<"h", "t", "t", "p", "s", ":", "/", "/">>) + Len(host) + 1, Len(url))

(***************************************************************************)
(* C20.  Without base_url override every platform entry of the built       *)
(* manifest has downloadUrl =                                              *)
(* https://{host}/{owner}/{repo}/releases/download/{tag}/{fileName} with   *)
(* host github.com for backend github and gitee.com for backend gitee and  *)
(* fileName the base name of the artifact path; the manifest built from    *)
(* the same parameters with the other backend differs in its downloadUrl   *)
(* fields only in the host.                                                *)
(***************************************************************************)
C20_DownloadUrl ==
    pc = "done" /\ inp.base_url = <<>>
    => LET other == [inp EXCEPT !.repo_type = OtherBackend(inp.repo_type)]
           c2 == generate_update_config(fs.files, other, loc.file_hashes)
       IN  /\ c2.ok
           /\ \A k \in 1..3 :
                  LET u1 == PlatformEntries(out.val)[k].downloadUrl
                      u2 == PlatformEntries(c2.val)[k].downloadUrl
                  IN  /\ u1 = DownloadUrl(Host(inp.repo_type), inp, Artifacts(inp)[k])
                      /\ u2 = DownloadUrl(Host(other.repo_type), other, Artifacts(inp)[k])
                      /\ AfterHost(u1, Host(inp.repo_type))
                             = AfterHost(u2, Host(other.repo_type))
                      /\ PlatformEntries(out.val)[k].fileName = basename(Artifacts(inp)[k])

\* a manifest for gitee without override: the macOS artifact d/m is at
\* https://gitee.com/o/r/releases/download/v1/m
C20_Witness ==
    /\ pc = "done"
    /\ inp.base_url = <<>>
    /\ inp.repo_type = "gitee"
    /\ out.val.client.platforms.macos.downloadUrl = <<"h", "t", "t", "p", "s", ":", "/", "/", "g", "i", "t", "e", "e", ".", "c", "o", "m", "/", "o", "/", "r", "/", "r", "e", "l", "e", "a", "s", "e", "s", "/", "d", "o", "w", "n", "l", "o", "a", "d", "/", "v", "1", "/", "m">>

(***************************************************************************)
(* generate_update_config on version strings of every shape: the function  *)
(* takes the two version arguments as they are, without validation.        *)
(***************************************************************************)
VersionChars == {"1", ".", "+", NL}

VersionStrings == UNION {[1..n -> VersionChars] : n \in 0..MaxLen}

\* the three artifacts exist
AllArtifacts ==
    [p \in {MACOS_FILE, WINDOWS_FILE, ANDROID_FILE} |->
        IF p = MACOS_FILE THEN RegularFile("M")
        ELSE IF p = WINDOWS_FILE THEN RegularFile("W") ELSE RegularFile("A")]

\* the arguments of a call with the versions c and s
ManifestArgs(c, s) ==
    [client_version |-> c, server_version |-> s,
     macos_file |-> MACOS_FILE, windows_file |-> WINDOWS_FILE,
     android_file |-> ANDROID_FILE, tag_version |-> <<"v", "1">>, repo_owner |-> <<"o">>,
     repo_name |-> <<"r">>, base_url |-> <<>>, update_check_url |-> <<>>,
     repo_type |-> "github"]

InitManifest ==
    /\ fs = [files |-> AllArtifacts, hashFile |-> NoHashFile]
    /\ inp \in VersionStrings
    /\ pre = fs
    /\ last = NoCall
    /\ nOps = 0
    /\ out = NoOut
    /\ pc = "start"
    /\ loc = NoLoc

\* generate_update_config(client_version, server_version, ...)
GenerateUpdateConfig ==
    /\ pc = "start"
    /\ \E s \in {inp, V_02_9_9, V_1_0_7_10} :
           LET a == ManifestArgs(inp, s)
               r == generate_update_config(fs.files, a, NoneHashes)
           IN  /\ loc' = a
               /\ out' = [fn |-> "generate_update_config", ok |-> r.ok, err |-> r.err,
                          val |-> r.val]
    /\ pc' = "done"
    /\ UNCHANGED <<fs, pre, last, nOps, inp>>

NextManifest == GenerateUpdateConfig

SpecManifest == InitManifest /\ [][NextManifest]_vars

\* n is v without build suffix: v itself when v has no '+', and else the
\* text before a '+' of v, without '+' in it
TrimmedForm(n, v) ==
    /\ ~Contains(n, "+")
    /\ \/ n = v
       \/ Len(v) > Len(n) /\ Slice(v, 1, Len(n)) = n /\ v[Len(n) + 1] = "+"

\* the target section sec of a manifest, built from the version v, with the
\* platform entries es
TargetVersions(sec, v, es) ==
    /\ sec.version = v
    /\ TrimmedForm(sec.versionNumber, sec.version)
    /\ validate_version(v).ok => sec.versionNumber = parse_version(v).val[1]
    /\ \A e \in es : e.version = sec.version /\ e.versionNumber = sec.versionNumber

(***************************************************************************)
(* C21.  In every manifest of generate_update_config, at the target level  *)
(* and in every platform entry, versionNumber is the trimmed (no-build)    *)
(* form of the version next to it; for a version the version manager       *)
(* accepts it is the version part parse_version returns; and the version   *)
(* of a platform entry is the version of its target.                       *)
(***************************************************************************)
C21_VersionNumber ==
    out.fn = "generate_update_config"
    => /\ out.ok
       /\ TargetVersions(out.val.client, loc.client_version,
                         {out.val.client.platforms.macos, out.val.client.platforms.windows})
       /\ TargetVersions(out.val.server, loc.server_version,
                         {out.val.server.platforms.android})

\* a manifest for client 1.1.1+1 and server 1.0.7+10
C21_Witness ==
    /\ out.fn = "generate_update_config"
    /\ loc.client_version = <<"1", ".", "1", ".", "1", "+", "1">>
    /\ loc.server_version = V_1_0_7_10
    /\ out.val.client.platforms.windows.versionNumber = <<"1", ".", "1", ".", "1">>
    /\ out.val.server.versionNumber = <<"1", ".", "0", ".", "7">>

(***************************************************************************)
(* C22.  In every manifest of generate_update_config the fileHash of each  *)
(* platform entry is the 64-character lower-case hexadecimal digest of the *)
(* bytes of the artifact file the entry refers to, whatever hash list is   *)
(* supplied (stale or malformed entries included) and without hash list.   *)
(***************************************************************************)
C22_FileHashIsDigest ==
    pc = "done" /\ out.fn = "main"
    => \A k \in 1..3 :
           PlatformEntries(out.val)[k].fileHash = sha256(fs.files[Artifacts(inp)[k]].data)

(***************************************************************************)
(* convert_config_to_gitee.py.  A manifest is the parsed JSON document: a  *)
(* function from its keys to values, nested the same way.                  *)
(***************************************************************************)
GITHUB_COM == <<"g", "i", "t", "h", "u", "b", ".", "c", "o", "m">>

GITEE_COM == <<"g", "i", "t", "e", "e", ".", "c", "o", "m">>

\* 'p in s' for strings
InString(p, s) == \E i \in 1..Len(s) : StartsWithAt(s, i, p)

\* s.replace(p, r): every occurrence, left to right, from position i on
RECURSIVE replace(_, _, _, _)
replace(s, i, p, r) ==
    IF i > Len(s) THEN <<>>
    ELSE IF StartsWithAt(s, i, p) THEN r \o replace(s, i + Len(p), p, r)
    ELSE <<s[i]>> \o replace(s, i + 1, p, r)

\* s from position i on
From(s, i) == Slice(s, i, Len(s))

\* re.match(r'https://github\.com/([^/]+)/([^/]+)/releases/download/([^/]+)/(.+)',
\* url): whether it matches, and the groups 3 and 4.  A group [^/]+ ends at
\* the next '/', the group .+ at the next line break or at the end.
MatchGithubUrl(url) ==
    LET no == [ok |-> FALSE, release_tag |-> <<>>, filename |-> <<>>]
        head == <<"h", "t", "t", "p", "s", ":", "/", "/", "g", "i", "t", "h", "u", "b", ".", "c", "o", "m", "/">>
        mid == <<"/", "r", "e", "l", "e", "a", "s", "e", "s", "/", "d", "o", "w", "n", "l", "o", "a", "d", "/">>
        r1 == From(url, Len(head) + 1)
        i1 == FirstIndex(r1, SEP)
        r2 == From(r1, i1 + 1)
        i2 == FirstIndex(r2, SEP)
        r3 == From(r2, i2 + Len(mid))
        i3 == FirstIndex(r3, SEP)
        r4 == From(r3, i3 + 1)
    IN  IF ~StartsWithAt(url, 1, head) THEN no
        ELSE IF i1 < 2 THEN no
        ELSE IF i2 < 2 \/ ~StartsWithAt(r2, i2, mid) THEN no
        ELSE IF i3 < 2 THEN no
        ELSE IF Len(r4) = 0 \/ r4[1] = NL THEN no
        ELSE [ok |-> TRUE, release_tag |-> Slice(r3, 1, i3 - 1),
              filename |-> Slice(r4, 1, SkipLine(r4, 1) - 1)]

\* the new value of a downloadUrl that contains github.com, with the
\* fallback also taken when the pattern matches
ConvertUrlFallbackOnly(download_url, gitee_repo) ==
    replace(download_url, 1, GITHUB_COM, GITEE_COM)

\* a rebuild that takes the whole match for the file name
ConvertUrlWholeMatch(download_url, gitee_repo) ==
    LET match == MatchGithubUrl(download_url)
    IN  IF match.ok
        THEN <<"h", "t", "t", "p", "s", ":", "/", "/", "g", "i", "t", "e", "e", ".", "c", "o", "m", "/">> \o gitee_repo \o <<"/", "r", "e", "l", "e", "a", "s", "e", "s", "/", "d", "o", "w", "n", "l", "o", "a", "d", "/">>
                 \o match.release_tag \o <<SEP>> \o download_url
        ELSE replace(download_url, 1, GITHUB_COM, GITEE_COM)

\* the new value of a downloadUrl that contains github.com
ConvertUrl(download_url, gitee_repo) ==
    LET match == MatchGithubUrl(download_url)
    IN  IF match.ok
        THEN <<"h", "t", "t", "p", "s", ":", "/", "/", "g", "i", "t", "e", "e", ".", "c", "o", "m", "/">> \o gitee_repo \o <<"/", "r", "e", "l", "e", "a", "s", "e", "s", "/", "d", "o", "w", "n", "l", "o", "a", "d", "/">>
                 \o match.release_tag \o <<SEP>> \o match.filename
        ELSE replace(download_url, 1, GITHUB_COM, GITEE_COM)

\* the dict d with d[k] = v
WithKey(d, k, v) == [x \in DOMAIN d \cup {k} |-> IF x = k THEN v ELSE d[x]]

\* one turn of the loops over the platforms: the entry of platform under
\* config[target]['platforms'], when there is one with a downloadUrl that
\* contains github.com, gets the converted URL
ConvertPlatform(config, target, platform, gitee_repo) ==
    IF /\ target \in DOMAIN config
       /\ "platforms" \in DOMAIN config[target]
       /\ platform \in DOMAIN config[target].platforms
       /\ "downloadUrl" \in DOMAIN config[target].platforms[platform]
       /\ InString(GITHUB_COM, config[target].platforms[platform].downloadUrl)
    THEN [config EXCEPT ![target].platforms[platform].downloadUrl =
              ConvertUrl(@, gitee_repo)]
    ELSE config

\* a converter that visits the Linux entry of the client as well
convert_to_gitee_linux(config, gitee_repo_owner, gitee_repo_name) ==
    LET gitee_repo == gitee_repo_owner \o <<SEP>> \o gitee_repo_name
        c0 == WithKey(config, "updateCheckUrl",
                      <<"h", "t", "t", "p", "s", ":", "/", "/", "g", "i", "t", "e", "e", ".", "c", "o", "m", "/">> \o gitee_repo
                          \o <<"/", "r", "e", "l", "e", "a", "s", "e", "s", "/", "d", "o", "w", "n", "l", "o", "a", "d", "/", "c", "o", "n", "f", "i", "g", "/", "u", "p", "d", "a", "t", "e", "_", "c", "o", "n", "f", "i", "g", "_", "g", "i", "t", "e", "e", ".", "j", "s", "o", "n">>)
        c1 == ConvertPlatform(c0, "client", "macos", gitee_repo)
        c2 == ConvertPlatform(c1, "client", "windows", gitee_repo)
        c3 == ConvertPlatform(c2, "client", "linux", gitee_repo)
    IN  ConvertPlatform(c3, "server", "android", gitee_repo)

\* convert_to_gitee: the config written to output_file
convert_to_gitee(config, gitee_repo_owner, gitee_repo_name) ==
    LET gitee_repo == gitee_repo_owner \o <<SEP>> \o gitee_repo_name
        c0 == WithKey(config, "updateCheckUrl",
                      <<"h", "t", "t", "p", "s", ":", "/", "/", "g", "i", "t", "e", "e", ".", "c", "o", "m", "/">> \o gitee_repo
                          \o <<"/", "r", "e", "l", "e", "a", "s", "e", "s", "/", "d", "o", "w", "n", "l", "o", "a", "d", "/", "c", "o", "n", "f", "i", "g", "/", "u", "p", "d", "a", "t", "e", "_", "c", "o", "n", "f", "i", "g", "_", "g", "i", "t", "e", "e", ".", "j", "s", "o", "n">>)
        c1 == ConvertPlatform(c0, "client", "macos", gitee_repo)
        c2 == ConvertPlatform(c1, "client", "windows", gitee_repo)
    IN  ConvertPlatform(c2, "server", "android", gitee_repo)

\* https://github.com/{owner}/{repo}/releases/download/{tag}/{file}
GithubUrl(owner, repo, tag, file) ==
    <<"h", "t", "t", "p", "s", ":", "/", "/", "g", "i", "t", "h", "u", "b", ".", "c", "o", "m", "/">> \o owner \o <<SEP>> \o repo \o <<"/", "r", "e", "l", "e", "a", "s", "e", "s", "/", "d", "o", "w", "n", "l", "o", "a", "d", "/">>
        \o tag \o <<SEP>> \o file

\* the parts the GitHub-shaped URLs of the inputs are made of: plain names,
\* a name that is the text github.com, a file in a folder
UrlOwners == {<<"a">>, GITHUB_COM}

UrlTags == {<<"v", "1">>, GITHUB_COM}

UrlFiles == {<<"f">>, <<"d", "/", "f">>, <<"g", "i", "t", "h", "u", "b", ".", "c", "o", "m", ".", "z", "i", "p">>}

GithubUrls ==
    {[url |-> GithubUrl(o, <<"b">>, t, f), tag |-> t, file |-> f] :
        o \in UrlOwners, t \in UrlTags, f \in UrlFiles}

\* URLs that are not GitHub-shaped: another scheme, no release path, another
\* host
OtherUrls ==
    {<<"h", "t", "t", "p", ":", "/", "/", "g", "i", "t", "h", "u", "b", ".", "c", "o", "m", "/", "a", "/", "b", "/", "r", "e", "l", "e", "a", "s", "e", "s", "/", "d", "o", "w", "n", "l", "o", "a", "d", "/", "v", "1", "/", "f">>,
     <<"h", "t", "t", "p", "s", ":", "/", "/", "g", "i", "t", "h", "u", "b", ".", "c", "o", "m", "/", "a", "/", "b", "/", "x">>,
     <<"h", "t", "t", "p", "s", ":", "/", "/", "e", "x", "a", "m", "p", "l", "e", ".", "c", "o", "m", "/", "f">>}

\* a platform entry with the downloadUrl url
UrlEntry(platform, url) ==
    [version |-> V_1_0_7_10, versionNumber |-> <<"1", ".", "0", ".", "7">>, downloadUrl |-> url,
     fileName |-> <<"f">>, fileType |-> "zip", platform |-> platform,
     fileHash |-> sha256("F")]

\* a platform entry without downloadUrl
BareEntry(platform) ==
    [version |-> V_1_0_7_10, versionNumber |-> <<"1", ".", "0", ".", "7">>, fileName |-> <<"f">>,
     fileType |-> "zip", platform |-> platform, fileHash |-> sha256("F")]

TargetSection(platforms) ==
    [version |-> V_1_0_7_10, versionNumber |-> <<"1", ".", "0", ".", "7">>, platforms |-> platforms]

\* the input manifests with the downloadUrls m, w and a, by shape: complete;
\* macOS entry without downloadUrl; a further platform, an unknown key and
\* no updateCheckUrl; no client; a server without platforms
ShapedManifest(shape, m, w, a) ==
    LET client == TargetSection([macos |-> UrlEntry("macos", m),
                                 windows |-> UrlEntry("windows", w)])
        server == TargetSection([android |-> UrlEntry("android", a)])
        check == <<"h", "t", "t", "p", "s", ":", "/", "/", "g", "i", "t", "h", "u", "b", ".", "c", "o", "m", "/", "a", "/", "b", "/", "r", "e", "l", "e", "a", "s", "e", "s", "/", "d", "o", "w", "n", "l", "o", "a", "d", "/", "U", "p", "d", "a", "t", "e", "C", "o", "n", "f", "i", "g", "/", "u", "p", "d", "a", "t", "e", "_", "c", "o", "n", "f", "i", "g", "_", "g", "i", "t", "h", "u", "b", ".", "j", "s", "o", "n">>
    IN  CASE shape = "complete" ->
                 [client |-> client, server |-> server, updateCheckUrl |-> check,
                  lastUpdated |-> "t0"]
          [] shape = "bare" ->
                 [client |-> TargetSection([macos |-> BareEntry("macos"),
                                            windows |-> UrlEntry("windows", w)]),
                  server |-> server, updateCheckUrl |-> check, lastUpdated |-> "t0"]
          [] shape = "extra" ->
                 [client |-> TargetSection([macos |-> UrlEntry("macos", m),
                                            windows |-> UrlEntry("windows", w),
                                            linux |-> UrlEntry("linux", m)]),
                  server |-> server, note |-> GITHUB_COM, lastUpdated |-> "t0"]
          [] shape = "noclient" ->
                 [server |-> server, updateCheckUrl |-> check, lastUpdated |-> "t0"]
          [] OTHER ->
                 [client |-> client,
                  server |-> [version |-> V_1_0_7_10, versionNumber |-> <<"1", ".", "0", ".", "7">>],
                  updateCheckUrl |-> check, lastUpdated |-> "t0"]

Shapes == {"complete", "bare", "extra", "noclient", "noplatforms"}

\* a macOS artifact whose file name has a line break
BROKEN_FILE == <<"d", "/", "m", NL, "x">>

\* the artifacts of the builds
BuiltArtifacts ==
    [p \in DOMAIN AllArtifacts \cup {BROKEN_FILE} |->
        IF p \in DOMAIN AllArtifacts THEN AllArtifacts[p] ELSE RegularFile("M")]

\* the arguments of the builds for the backend github: owners and tags that
\* are names, that are the text github.com, that are empty or that have a
\* '/', and both macOS artifacts
BuiltArgs ==
    {[ManifestArgs(V_1_0_7_10, V_02_9_9) EXCEPT !.repo_owner = o, !.tag_version = t,
                                                 !.macos_file = m] :
        o \in UrlOwners \cup {<<>>, <<"x", "/", "y">>},
        t \in UrlTags \cup {<<"r", "/", "v", "1">>, <<>>, <<"/", "v", "1">>},
        m \in {MACOS_FILE, BROKEN_FILE}}

\* the Gitee coordinates given on the command line
GiteeRepos == {<<<<"c">>, <<"d">>>>, <<GITHUB_COM, <<"d">>>>}

\* the input of a run: the manifest in the --input file, the coordinates,
\* and the arguments the manifest was built from (<<>> if it was not built)
ConvertInputs ==
    {[config |-> ShapedManifest(s, m.url, w, a), repo |-> g, args |-> <<>>] :
        s \in Shapes, m \in GithubUrls \cup {[url |-> u] : u \in OtherUrls},
        w \in {GithubUrl(<<"a">>, <<"b">>, <<"v", "1">>, <<"f">>), <<"h", "t", "t", "p", "s", ":", "/", "/", "e", "x", "a", "m", "p", "l", "e", ".", "c", "o", "m", "/", "f">>},
        a \in {GithubUrl(<<"a">>, <<"b">>, <<"v", "1">>, <<"g", "i", "t", "h", "u", "b", ".", "c", "o", "m", ".", "z", "i", "p">>),
               <<"h", "t", "t", "p", ":", "/", "/", "g", "i", "t", "h", "u", "b", ".", "c", "o", "m", "/", "a", "/", "b", "/", "r", "e", "l", "e", "a", "s", "e", "s", "/", "d", "o", "w", "n", "l", "o", "a", "d", "/", "v", "1", "/", "f">>},
        g \in GiteeRepos}
    \cup
    {[config |-> generate_update_config(BuiltArtifacts, b, NoneHashes).val, repo |-> g,
      args |-> <<b>>] : b \in BuiltArgs, g \in GiteeRepos}

InitConvert ==
    /\ inp \in ConvertInputs
    /\ fs = [output |-> Nothing]
    /\ pre = fs
    /\ last = NoCall
    /\ nOps = 0
    /\ out = NoOut
    /\ pc = "start"
    /\ loc = NoLoc

\* convert_to_gitee(input_file, gitee_repo_owner, gitee_repo_name, output_file)
ConvertToGitee ==
    /\ pc = "start"
    /\ out' = [fn |-> "convert_to_gitee", ok |-> TRUE, err |-> "",
               val |-> convert_to_gitee(inp.config, inp.repo[1], inp.repo[2])]
    /\ fs' = [output |-> ManifestFile]
    /\ pc' = "done"
    /\ UNCHANGED <<pre, last, nOps, inp, loc>>

NextConvert == ConvertToGitee

SpecConvert == InitConvert /\ [][NextConvert]_vars


(***************************************************************************)
(* Vocabulary of the claims about the converter                            *)
(***************************************************************************)

\* https://gitee.com/{owner}/{repo}/releases/download/{tag}/{file}
GiteeUrl(owner, repo, tag, file) ==
    <<"h", "t", "t", "p", "s", ":", "/", "/", "g", "i", "t", "e", "e", ".", "c", "o", "m", "/">> \o owner \o <<SEP>> \o repo \o <<"/", "r", "e", "l", "e", "a", "s", "e", "s", "/", "d", "o", "w", "n", "l", "o", "a", "d", "/">>
        \o tag \o <<SEP>> \o file

\* the tags and the file names of the GitHub-shaped URLs of the inputs; the
\* built manifests name the artifacts m, w and a and one of them has a tag
\* in a folder
ShapedTags == UrlTags \cup {<<"r", "/", "v", "1">>}

ShapedFiles == UrlFiles \cup {<<"m">>, <<"w">>, <<"a">>}

\* url has the form https://github.com/A/B/releases/download/{tag}/{file}
\* for an owner A and a repository B that are names
GithubShaped(url) ==
    \E o \in UrlOwners, r \in {<<"b">>}, t \in ShapedTags, f \in ShapedFiles :
        url = GithubUrl(o, r, t, f)

\* c has the three entries the converter visits, each with a downloadUrl
HasEntries(c) ==
    /\ {"client", "server"} \subseteq DOMAIN c
    /\ "platforms" \in DOMAIN c.client /\ "platforms" \in DOMAIN c.server
    /\ {"macos", "windows"} \subseteq DOMAIN c.client.platforms
    /\ "android" \in DOMAIN c.server.platforms
    /\ \A k \in 1..3 : "downloadUrl" \in DOMAIN PlatformEntries(c)[k]

\* c is a GitHub-shaped manifest
GithubShapedManifest(c) ==
    /\ HasEntries(c)
    /\ \A k \in 1..3 : GithubShaped(PlatformEntries(c)[k].downloadUrl)

\* https://gitee.com/C/D/releases/download/config/update_config_gitee.json
GiteeCheckUrl(owner, repo) ==
    GiteeUrl(owner, repo, <<"c", "o", "n", "f", "i", "g">>, <<"u", "p", "d", "a", "t", "e", "_", "c", "o", "n", "f", "i", "g", "_", "g", "i", "t", "e", "e", ".", "j", "s", "o", "n">>)

\* the conversion has run
Converted == pc = "done" /\ out.fn = "convert_to_gitee"

(***************************************************************************)
(* C23.  Converting a GitHub-shaped manifest (each downloadUrl of          *)
(* client.platforms.macos, client.platforms.windows and                    *)
(* server.platforms.android is                                             *)
(* https://github.com/A/B/releases/download/{tag}/{file}, A and B names)   *)
(* with Gitee owner C and repository D gives each of those entries the     *)
(* downloadUrl https://gitee.com/C/D/releases/download/{tag}/{file} with   *)
(* the same tag and file, and sets updateCheckUrl to                       *)
(* https://gitee.com/C/D/releases/download/config/update_config_gitee.json *)
(* whatever it was before, absent included.                                *)
(***************************************************************************)
C23_GithubShaped ==
    Converted /\ GithubShapedManifest(inp.config) =>
        /\ HasEntries(out.val)
        /\ \A k \in 1..3 :
               \A o \in UrlOwners, t \in ShapedTags, f \in ShapedFiles :
                   PlatformEntries(inp.config)[k].downloadUrl = GithubUrl(o, <<"b">>, t, f) =>
                       PlatformEntries(out.val)[k].downloadUrl
                           = GiteeUrl(inp.repo[1], inp.repo[2], t, f)
        /\ "updateCheckUrl" \in DOMAIN out.val
        /\ out.val.updateCheckUrl = GiteeCheckUrl(inp.repo[1], inp.repo[2])

\* a GitHub-shaped manifest without updateCheckUrl, whose macOS URL has the
\* owner github.com and a file in a folder, has been converted
C23_Witness ==
    /\ Converted
    /\ GithubShapedManifest(inp.config)
    /\ "updateCheckUrl" \notin DOMAIN inp.config
    /\ inp.config.client.platforms.macos.downloadUrl
           = GithubUrl(GITHUB_COM, <<"b">>, <<"v", "1">>, <<"d", "/", "f">>)
    /\ out.val.client.platforms.macos.downloadUrl
           = GiteeUrl(inp.repo[1], inp.repo[2], <<"v", "1">>, <<"d", "/", "f">>)


\* an entry with its downloadUrl, if it has one, blanked
Mask(e) == IF "downloadUrl" \in DOMAIN e THEN [e EXCEPT !.downloadUrl = <<>>] ELSE e

\* a section with the downloadUrl of the entries of the platforms in names
\* blanked
MaskPlatforms(sec, names) ==
    IF "platforms" \in DOMAIN sec
    THEN [sec EXCEPT !.platforms =
              [p \in DOMAIN sec.platforms |->
                  IF p \in names THEN Mask(sec.platforms[p]) ELSE sec.platforms[p]]]
    ELSE sec

\* a manifest without updateCheckUrl and with the downloadUrl of
\* client.platforms.macos, client.platforms.windows and
\* server.platforms.android blanked: everything the conversion is not
\* about, the presence of each downloadUrl included
Masked(c) ==
    [k \in DOMAIN c \ {"updateCheckUrl"} |->
        IF k = "client" THEN MaskPlatforms(c.client, {"macos", "windows"})
        ELSE IF k = "server" THEN MaskPlatforms(c.server, {"android"})
        ELSE c[k]]

\* the entries the converter visits, as <<section, platform>>
Visited == {<<"client", "macos">>, <<"client", "windows">>, <<"server", "android">>}

\* c has an entry at v
HasEntry(c, v) ==
    /\ v[1] \in DOMAIN c
    /\ "platforms" \in DOMAIN c[v[1]]
    /\ v[2] \in DOMAIN c[v[1]].platforms

EntryAt(c, v) == c[v[1]].platforms[v[2]]

(***************************************************************************)
(* C24.  The conversion changes nothing but URL fields: every field of the *)
(* input manifest other than updateCheckUrl and the downloadUrl of         *)
(* client.platforms.macos, client.platforms.windows and                    *)
(* server.platforms.android (other platform entries and unknown keys       *)
(* included) has the same value in the output; a downloadUrl without the   *)
(* text github.com is unchanged too, and an entry without downloadUrl gets *)
(* no key.                                                                 *)
(***************************************************************************)
C24_OnlyUrlFields ==
    Converted =>
        /\ Masked(out.val) = Masked(inp.config)
        /\ \A v \in Visited :
               HasEntry(inp.config, v) =>
                   /\ DOMAIN EntryAt(out.val, v) = DOMAIN EntryAt(inp.config, v)
                   /\ /\ "downloadUrl" \in DOMAIN EntryAt(inp.config, v)
                      /\ ~InString(GITHUB_COM, EntryAt(inp.config, v).downloadUrl)
                      => EntryAt(out.val, v) = EntryAt(inp.config, v)

\* a manifest with an unknown key, a Linux entry with a GitHub URL, a
\* Windows URL of another host and a macOS URL that the conversion changed
C24_Witness ==
    /\ Converted
    /\ "note" \in DOMAIN inp.config
    /\ InString(GITHUB_COM, inp.config.client.platforms.linux.downloadUrl)
    /\ ~InString(GITHUB_COM, inp.config.client.platforms.windows.downloadUrl)
    /\ out.val.client.platforms.macos.downloadUrl
           # inp.config.client.platforms.macos.downloadUrl

\* an entry without downloadUrl has been through the conversion
C24_WitnessBare ==
    /\ Converted
    /\ HasEntry(inp.config, <<"client", "macos">>)
    /\ "downloadUrl" \notin DOMAIN inp.config.client.platforms.macos


\* the conversion of the output of the run, with the same owner and repo
ConvertedAgain == convert_to_gitee(out.val, inp.repo[1], inp.repo[2])

\* the downloadUrls the input has at the entries the converter visits
InputUrls ==
    {EntryAt(inp.config, v).downloadUrl :
        v \in {w \in Visited : /\ HasEntry(inp.config, w)
                               /\ "downloadUrl" \in DOMAIN EntryAt(inp.config, w)}}

\* the URL rebuilt from the GitHub-shaped url carries the text github.com
\* on: in its tag, in its file name, or in the Gitee owner or repository
CarriesHost(url) ==
    /\ MatchGithubUrl(url).ok
    /\ \/ InString(GITHUB_COM, MatchGithubUrl(url).release_tag)
       \/ InString(GITHUB_COM, MatchGithubUrl(url).filename)
       \/ InString(GITHUB_COM, inp.repo[1])
       \/ InString(GITHUB_COM, inp.repo[2])

(***************************************************************************)
(* C29.  The conversion is idempotent: for every input manifest and every  *)
(* Gitee owner and repository, converting the output again with the same   *)
(* owner and repository gives a manifest equal to that output, also when   *)
(* an owner, repository, tag or file name of a downloadUrl contains the    *)
(* text github.com.                                                        *)
(***************************************************************************)
C29_Idempotent == Converted => ConvertedAgain = out.val

\* C29 as amended: converting the output again gives the same manifest
\* provided no GitHub-shaped downloadUrl of the input has a tag or a file
\* name that contains the text github.com, or is rebuilt with a Gitee owner
\* or repository that contains it
C29_IdempotentAmended ==
    Converted /\ (\A u \in InputUrls : ~CarriesHost(u)) =>
        ConvertedAgain = out.val

\* a manifest whose GitHub-shaped URLs carry github.com only as host or as
\* owner, and a URL that is not GitHub-shaped, has been converted to a
\* different manifest
C29_Witness ==
    /\ Converted
    /\ HasEntries(inp.config)
    /\ \A u \in InputUrls : ~CarriesHost(u)
    /\ inp.config.client.platforms.macos.downloadUrl
           = GithubUrl(GITHUB_COM, <<"b">>, <<"v", "1">>, <<"f">>)
    /\ ~MatchGithubUrl(inp.config.server.platforms.android.downloadUrl).ok
    /\ \A k \in 1..3 : PlatformEntries(out.val)[k].downloadUrl
                           # PlatformEntries(inp.config)[k].downloadUrl

\* the manifest built directly for the backend gitee with the owner and the
\* repository of the conversion, from the other arguments of the build
DirectGitee ==
    generate_update_config(BuiltArtifacts,
                           [inp.args[1] EXCEPT !.repo_type = "gitee",
                                               !.repo_owner = inp.repo[1],
                                               !.repo_name = inp.repo[2]],
                           NoneHashes).val

\* a manifest without lastUpdated
SansTime(c) == [k \in DOMAIN c \ {"lastUpdated"} |-> c[k]]

\* the input of the run is a manifest built for the backend github
BuiltThenConverted == Converted /\ inp.args # <<>>

\* s is a name: not empty and without '/'
IsName(s) == s # <<>> /\ ~Contains(s, SEP)

\* the built URLs are GitHub-shaped: owner and repository are names, the
\* tag begins with a name, the file names have no line break
ShapedBuild(a) ==
    /\ IsName(a.repo_owner) /\ IsName(a.repo_name)
    /\ a.tag_version # <<>> /\ a.tag_version[1] # SEP
    /\ \A f \in {a.macos_file, a.windows_file, a.android_file} : ~Contains(basename(f), NL)

(***************************************************************************)
(* C30.  Builder and converter agree: for all versions, artifacts, tags    *)
(* and repository coordinates, without base_url and update_check_url,      *)
(* building a manifest for the backend github with any owner and           *)
(* repository and converting it with Gitee owner C and repository D gives  *)
(* a manifest equal, in every field but lastUpdated, to the manifest built *)
(* directly for the backend gitee with owner C and repository D.           *)
(***************************************************************************)
C30_BuilderConverterAgree ==
    BuiltThenConverted => SansTime(out.val) = SansTime(DirectGitee)

\* C30 as amended: the two manifests agree when the GitHub owner and
\* repository are non-empty and have no '/', the tag is non-empty and does
\* not begin with '/', and no artifact file name has a line break
C30_AgreeAmended ==
    BuiltThenConverted /\ ShapedBuild(inp.args[1]) =>
        SansTime(out.val) = SansTime(DirectGitee)

\* a manifest built for the owner github.com and a tag in a folder has been
\* converted for another owner and repository
C30_Witness ==
    /\ BuiltThenConverted
    /\ ShapedBuild(inp.args[1])
    /\ inp.args[1].repo_owner = GITHUB_COM
    /\ inp.args[1].tag_version = <<"r", "/", "v", "1">>
    /\ inp.repo = <<<<"c">>, <<"d">>>>
    /\ out.val.client.platforms.macos.downloadUrl = GiteeUrl(<<"c">>, <<"d">>, <<"r", "/", "v", "1">>, <<"m">>)


(***************************************************************************)
(* Vocabulary of the claim about the errors of the manifest command        *)
(***************************************************************************)

\* the run of the manifest command has ended
Ended == pc \in {"done", "exit1"}

\* hashing an artifact raises: the run has to digest an artifact that
\* cannot be read
HashingRaises ==
    \E k \in 1..3 :
        ~get_file_hash(fs.files,
                       IF fs.hashFile.kind = "list" THEN HashDict(fs.hashFile.items)
                       ELSE NoneHashes,
                       Artifacts(inp)[k], basename(Artifacts(inp)[k])).ok

\* a structural error: a malformed version, a missing artifact, a digest
\* that raises
StructuralError ==
    \/ ~WellFormed(inp.client_version)
    \/ ~WellFormed(inp.server_version)
    \/ MissingArtifacts # {}
    \/ HashingRaises

(***************************************************************************)
(* C25.  The manifest command leaves no manifest behind on a structural    *)
(* error: with a malformed client or server version, a missing artifact or *)
(* a digest that raises, it exits non-zero with a diagnostic and the       *)
(* output file is neither created nor modified.                            *)
(***************************************************************************)
C25_NoManifestOnError ==
    Ended /\ StructuralError =>
        /\ pc = "exit1"
        /\ ~out.ok
        /\ fs.output = pre.output


(***************************************************************************)
(* Two invocations of bump_version(t, 'build') on one store.  An           *)
(* invocation reads the current version (get_version, line 273), computes  *)
(* the new one, and in set_version loads the document again (lines 138 and *)
(* 154) and writes it back whole (lines 150 and 159-161); nothing keeps    *)
(* another invocation from running between these steps.                    *)
(***************************************************************************)
MaxInvocations == 3

\* the invocations that may run at the same time
Procs == {1, 2}

\* the stores of the runs: both targets have a well-formed version
RaceFiles ==
    {MkFs(YamlFile(Doc1), NoText), MkFs(NoYaml, OldFile(Old1)),
     MkFs(YamlFile(Doc1), OldFile(Old2))}

InitRace ==
    /\ fs \in RaceFiles
    /\ pre = fs
    /\ inp \in RealTargets
    /\ last = NoCall
    /\ nOps = 0
    /\ out = [done |-> 0, overlapped |-> FALSE]
    /\ pc = [p \in Procs |-> "idle"]
    /\ loc = [p \in Procs |-> [new_version |-> <<>>, data |-> fs]]

\* lines 273-293: the current version is read and the new one computed
ReadVersion(p) ==
    /\ pc[p] = "idle"
    /\ nOps < MaxInvocations
    /\ LET cur == get_version(fs, inp)
           n == BumpTuple(VersionTuple(parse_version(cur.val).val), "build")
       IN  /\ cur.ok /\ parse_version(cur.val).ok
           /\ loc' = [loc EXCEPT ![p].new_version = FormatVersion(n[1], n[2], n[3], n[4])]
    /\ pc' = [pc EXCEPT ![p] = "read"]
    /\ nOps' = nOps + 1
    /\ out' = [out EXCEPT !.overlapped = @ \/ \E q \in Procs \ {p} : pc[q] # "idle"]
    /\ UNCHANGED <<fs, pre, last, inp>>

\* set_version, lines 134-138 and 154: the document is loaded
LoadDocument(p) ==
    /\ pc[p] = "read"
    /\ validate_version(loc[p].new_version).ok
    /\ loc' = [loc EXCEPT ![p].data = fs]
    /\ pc' = [pc EXCEPT ![p] = "loaded"]
    /\ UNCHANGED <<fs, pre, last, nOps, inp, out>>

\* set_version, lines 139-150 and 155-161: the loaded document, with the
\* new version, is written over the file
SaveDocument(p) ==
    /\ pc[p] = "loaded"
    /\ LET w == set_version(loc[p].data, inp, loc[p].new_version).fs
       IN  fs' = [fs EXCEPT !.yaml = w.yaml, !.old = w.old]
    /\ pc' = [pc EXCEPT ![p] = "idle"]
    /\ out' = [out EXCEPT !.done = @ + 1]
    /\ UNCHANGED <<pre, last, nOps, inp, loc>>

NextRace == \E p \in Procs : ReadVersion(p) \/ LoadDocument(p) \/ SaveDocument(p)

SpecRace == InitRace /\ [][NextRace]_vars

\* the build number the store holds for the target of the run
BuildOf(f) == StoredTuple(f, inp)[4]

\* no invocation is under way
Quiet == \A p \in Procs : pc[p] = "idle"

(***************************************************************************)
(* C26.  bump_version takes no lock and is not atomic against another      *)
(* invocation on the same store: it reads the version in one step and      *)
(* reloads and rewrites the document in a later one, so with two           *)
(* interleaved bump_version(t, build) a state is reachable in which both   *)
(* have completed and the build number of t is one higher than at the      *)
(* start (C26_Witness); under serialized invocations k successful build    *)
(* bumps raise the build number by exactly k, and interleaved ones by at   *)
(* least one and at most k.                                                *)
(***************************************************************************)
C26_SerializedBumps ==
    /\ ~out.overlapped => BuildOf(fs) = BuildOf(pre) + out.done
    /\ BuildOf(fs) <= BuildOf(pre) + out.done
    /\ out.done > 0 => BuildOf(fs) > BuildOf(pre)
    /\ \A t \in RealTargets \ {inp} : StoredFor(fs, t) = StoredFor(pre, t)

\* two interleaved invocations have both completed and the build number is
\* one higher than at the start: one update is lost
C26_Witness ==
    /\ Quiet
    /\ out.overlapped
    /\ out.done = 2
    /\ BuildOf(fs) = BuildOf(pre) + 1

\* three serialized invocations have raised the build number by three
C26_WitnessSerialized ==
    /\ Quiet
    /\ ~out.overlapped
    /\ out.done = MaxInvocations
    /\ BuildOf(fs) = BuildOf(pre) + MaxInvocations


(***************************************************************************)
(* Vocabulary of the claims about the stored versions across calls         *)
(***************************************************************************)

\* the store f holds, for both targets, a version of the form
\* major.minor.patch or major.minor.patch+build
ValidStore(f) ==
    /\ HasStore(f)
    /\ \A t \in RealTargets : StoredFor(f, t) # <<>> /\ WellFormed(StoredFor(f, t))

\* v is major.minor.patch+build without leading zeros
FullForm(v) ==
    /\ WellFormed(v)
    /\ v = Shown(Numbers(v)[1], Numbers(v)[2], Numbers(v)[3], Numbers(v)[4])

\* the calls that write versions
WriteOps == {"set_version", "bump_version", "set_min_version"}

(***************************************************************************)
(* C27.  Store validity: when the store holds well-formed versions for     *)
(* both targets, it still does after a call of set_version, bump_version   *)
(* or set_min_version, successful or failing, with any arguments (hence    *)
(* after any finite sequence of such calls on an initially valid store),   *)
(* and after a successful bump_version the stored version of the bumped    *)
(* target is major.minor.patch+build without leading zeros.                *)
(***************************************************************************)
C27_StoreValidity ==
    last.op \in WriteOps /\ ValidStore(pre) =>
        /\ ValidStore(fs)
        /\ last.op = "bump_version" /\ last.ok /\ last.target \in RealTargets
           => FullForm(StoredFor(fs, last.target))


\* the compatibility section of the store f (the legacy file has none)
CompatOf(f) == IF f.yaml.exists THEN f.yaml.doc.compatibility ELSE NoCompat

\* the target other than t
OtherTarget(t) == IF t = "client" THEN "server" ELSE "client"

(***************************************************************************)
(* C28.  Frame across targets: in both representations a set_version or    *)
(* bump_version for the target name x changes at most the stored version   *)
(* of x: a call for 'client' leaves the server's version and the           *)
(* compatibility section as they were, and the other way round, and a call *)
(* with a name other than 'client' and 'server' fails and changes neither  *)
(* target's version.                                                       *)
(***************************************************************************)
C28_FrameAcrossTargets ==
    last.op \in {"set_version", "bump_version"} =>
        /\ last.target \in RealTargets =>
               /\ StoredFor(fs, OtherTarget(last.target))
                      = StoredFor(pre, OtherTarget(last.target))
               /\ CompatOf(fs) = CompatOf(pre)
        /\ last.target \notin RealTargets =>
               /\ ~last.ok
               /\ \A t \in RealTargets : StoredFor(fs, t) = StoredFor(pre, t)

====
